---------------------------- MODULE Spec2Model ----------------------------
(***************************************************************************)
(* Model of the predicate-evaluation core of the log storage:              *)
(*   - the bloom filter (src/unnamed/part_000),                            *)
(*   - the filter variants, their compute-once caches and the primitive    *)
(*     matchers (src/unnamed/part_001).                                    *)
(*                                                                         *)
(* Representation of Go values                                             *)
(*   string / []byte : a sequence of bytes, each in 0..255                 *)
(*   uint64 hash     : its 8 bytes, least significant first (the layout of *)
(*                     the buffer the hash chain reads it from)            *)
(*   bloom word      : the set of its set bit positions, a subset of 0..63 *)
(*   []T             : a sequence; Go index i is TLA+ index i+1            *)
(***************************************************************************)
EXTENDS Integers, Sequences, FiniteSets, TLC

VARIABLES
    \* ---- bloom filter scenario (part_000)
    input,      \* the caller's argument: a token list, a hash list or raw bytes
    bf,         \* bloomFilter.bits: [arr |-> backing array, len |-> len(bits)]
    dst,        \* the bytes returned by the last marshal(nil)
    err,        \* whether the last unmarshal returned an error
    lastOp,     \* the last operation that ran on bf
    prevBf,     \* bf as it was before the last operation
    lastSrc     \* the bytes given to the last unmarshal

bloomVars == <<input, bf, dst, err, lastOp, prevBf, lastSrc>>

VARIABLES
    \* ---- primitive matcher scenario (part_001)
    ms,         \* the value s given to the matcher
    mlit,       \* the literal (prefix or phrase) given to the matcher
    mop,        \* the matcher that ran last, "none" before any
    mres        \* what it returned

matchVars == <<ms, mlit, mop, mres>>

VARIABLES
    \* ---- compute-once caches of one shared filter instance (part_001)
    odone,      \* per cache: the done flag of its sync.Once
    omutex,     \* per cache: the goroutine holding the mutex of its sync.Once, 0 if free
    ofield,     \* per cache: the cache field, "unset", "partial" or "full"
    oinits,     \* per cache: how many times its init function has started
    opc,        \* per goroutine: its position in the getter
    ocache,     \* per goroutine: the cache its getter is for
    ogot        \* per goroutine: the value its getter returned

onceVars == <<odone, omutex, ofield, oinits, opc, ocache, ogot>>

VARIABLES
    \* ---- filters applied to one block (part_001)
    block,        \* the block being searched
    bitmap,         \* the block's bitmap: the set of row indexes whose bit is set
    bitmapInit,     \* the bitmap the first filter of the query was given
    bitmapBefore,   \* the bitmap before the last apply
    filter,        \* the filter of the last apply
    readSet,      \* what the last apply read of the block
    branch,       \* the branch the last apply took
    panicked       \* the last apply ended in logger.Panicf

applyVars == <<block, bitmap, bitmapInit, bitmapBefore, filter, readSet, branch, panicked>>

VARIABLES
    \* ---- range matchers on one value (part_001)
    rangeArgs,    \* the arguments: a value with string bounds or length bounds
    rangeOp,      \* the matcher that ran, "none" before
    rangeMatch,   \* what the matcher returned for the value
    rangeBitmap   \* the bitmap the range filter left of a column holding the value

rangeVars == <<rangeArgs, rangeOp, rangeMatch, rangeBitmap>>

VARIABLES
    \* ---- one stream filter shared by the searches of several blocks (part_001)
    fsF,            \* fs.f: the stream sub-query, <<>> when it is empty
    fsIdb,          \* fs.idb: the stream ids its index finds for the sub-query
    fsOnceDone,     \* fs.streamIDsOnce: the done flag
    fsOnceMutex,    \* fs.streamIDsOnce: the goroutine holding the mutex, 0 if free
    fsStreamIDs,    \* fs.streamIDs: the resolved stream ids, <<>> while nil
    searchCalls,    \* how many times idb.searchStreamIDs has been called
    fsPc,           \* per goroutine: its position in apply
    fsRun           \* per goroutine: the block of its apply and the bitmap before and after

streamVars == <<fsF, fsIdb, fsOnceDone, fsOnceMutex, fsStreamIDs, searchCalls, fsPc, fsRun>>

VARIABLES
    \* ---- pooled scratch objects used by concurrent calls (part_000, part_001)
    bloomFilterPool,  \* the bloom filters lying in bloomFilterPool (object ids)
    bbPool,           \* the byte buffers lying in bbPool (object ids)
    bfHeap,           \* every bloomFilter allocated so far, by object id
    bbHeap,           \* bb.B of every byte buffer allocated so far, by object id
    poolPc,           \* per goroutine: its position in the function it runs
    poolCall          \* per goroutine: the call it runs and what it holds

poolVars == <<bloomFilterPool, bbPool, bfHeap, bbHeap, poolPc, poolCall>>

vars == <<bloomVars, matchVars, onceVars, applyVars, rangeVars, streamVars, poolVars>>

\* What a step of one scenario leaves alone.
nonBloomVars == <<matchVars, onceVars, applyVars, rangeVars, streamVars, poolVars>>

nonMatchVars == <<bloomVars, onceVars, applyVars, rangeVars, streamVars, poolVars>>

nonOnceVars == <<bloomVars, matchVars, applyVars, rangeVars, streamVars, poolVars>>

nonApplyVars == <<bloomVars, matchVars, onceVars, rangeVars, streamVars, poolVars>>

nonRangeVars == <<bloomVars, matchVars, onceVars, applyVars, streamVars, poolVars>>

nonStreamVars == <<bloomVars, matchVars, onceVars, applyVars, rangeVars, poolVars>>

nonPoolVars == <<bloomVars, matchVars, onceVars, applyVars, rangeVars, streamVars>>

(***************************************************************************)
(* Generic helpers                                                         *)
(***************************************************************************)
Min(a, b) == IF a < b THEN a ELSE b

Max(a, b) == IF a > b THEN a ELSE b

Pow2(n) == 2 ^ n

\* All sequences over S of length 0..n.
SeqsUpTo(S, n) == UNION {[1..k -> S] : k \in 0..n}

\* s[from+1 .. to] in TLA+ terms, i.e. Go's s[from:to].
Slice(s, from, to) == [i \in 1..(to - from) |-> s[from + i]]

\* The subsequence of s at the (1-based) positions in P, order kept.
RECURSIVE PickPositions(_, _, _)
PickPositions(s, P, i) ==
    IF i > Len(s) THEN <<>>
    ELSE (IF i \in P THEN <<s[i]>> ELSE <<>>) \o PickPositions(s, P, i + 1)

\* Every sub-list of s (any selection of its elements, order kept).
SubLists(s) == {PickPositions(s, P, 1) : P \in SUBSET (1..Len(s))}

(***************************************************************************)
(* Program constants of the bloom filter                                   *)
(***************************************************************************)
bloomFilterHashesCount == 6

bloomFilterBitsPerItem == 16

(***************************************************************************)
(* Bounds of the bloom filter scenario                                     *)
(***************************************************************************)
\* Longest token list / hash list given to mustInitTokens / mustInitHashes.
\* 5 items need 80 bits, i.e. two 64-bit words.
MaxItems == 5

\* Longest raw byte string given to unmarshal.
MaxSrcLen == 9

(***************************************************************************)
(* uint64 arithmetic on the 8-byte little-endian form                      *)
(***************************************************************************)
\* (x + 1) mod 2^64 : the (*hp)++ of the hash chain.
RECURSIVE U64IncFrom(_, _)
U64IncFrom(x, k) ==
    IF k > 8 THEN x
    ELSE IF x[k] = 255 THEN U64IncFrom([x EXCEPT ![k] = 0], k + 1)
    ELSE [x EXCEPT ![k] = x[k] + 1]

U64Inc(x) == U64IncFrom(x, 1)

\* x mod m for a small positive m (Horner from the most significant byte).
RECURSIVE U64ModFrom(_, _, _, _)
U64ModFrom(x, m, k, r) ==
    IF k = 0 THEN r ELSE U64ModFrom(x, m, k - 1, (r * 256 + x[k]) % m)

U64Mod(x, m) == U64ModFrom(x, m, 8, 0)

\* xxhash.Sum64 is an external library: any fixed function from byte strings to
\* uint64 stands for it.  This one folds the bytes into a 16-bit state and
\* spreads the state over the 8 output bytes.
RECURSIVE Sum64State(_, _, _)
Sum64State(b, i, s) ==
    IF i > Len(b) THEN s
    ELSE Sum64State(b, i + 1, (s * 31 + b[i] * 7 + i * 13 + 5) % 65521)

Sum64(b) ==
    LET s == Sum64State(b, 1, 17 + Len(b))
    IN  [k \in 1..8 |-> (s * (2 * k - 1) + (s \div 251) + 41 * k) % 256]

(***************************************************************************)
(* Hash chains: appendTokensHashes / appendHashesHashes                    *)
(***************************************************************************)
\* The inner loop: h := Sum64(buf[:]); (*hp)++; dst = append(dst, h),
\* bloomFilterHashesCount times, starting with *hp = seed.
RECURSIVE HashChainFrom(_, _)
HashChainFrom(hp, i) ==
    IF i >= bloomFilterHashesCount THEN <<>>
    ELSE <<Sum64(hp)>> \o HashChainFrom(U64Inc(hp), i + 1)

HashChain(seed) == HashChainFrom(seed, 0)

RECURSIVE appendTokensHashes(_, _)
appendTokensHashes(d, tokens) ==
    IF tokens = <<>> THEN d
    ELSE appendTokensHashes(d \o HashChain(Sum64(Head(tokens))), Tail(tokens))

\* A variant of appendHashesHashes that increments *hp before the first probe.
RECURSIVE appendHashesHashesFromNext(_, _)
appendHashesHashesFromNext(d, hashes) ==
    IF hashes = <<>> THEN d
    ELSE appendHashesHashesFromNext(d \o HashChain(U64Inc(Head(hashes))), Tail(hashes))

RECURSIVE appendHashesHashes(_, _)
appendHashesHashes(d, hashes) ==
    IF hashes = <<>> THEN d
    ELSE appendHashesHashes(d \o HashChain(Head(hashes)), Tail(hashes))

(***************************************************************************)
(* The bloom filter object                                                 *)
(***************************************************************************)
\* bf.bits as Go sees it: the first len words of the backing array.
Bits(f) == SubSeq(f.arr, 1, f.len)

\* slicesutil.SetLength: keeps the backing array, extends it with zero words
\* when the capacity is too small, and does not clear what it keeps.
SetLength(f, newLen) ==
    [arr |-> IF newLen > Len(f.arr)
                THEN f.arr \o [i \in 1..(newLen - Len(f.arr)) |-> {}]
                ELSE f.arr,
     len |-> newLen]

\* A variant of reset without the clear: bf.bits = bf.bits[:0] only.
resetKeepsWords(f) == [arr |-> f.arr, len |-> 0]

\* reset: clear(bf.bits); bf.bits = bf.bits[:0]
reset(f) ==
    [arr |-> [i \in 1..Len(f.arr) |-> IF i <= f.len THEN {} ELSE f.arr[i]],
     len |-> 0]

\* A variant of initBloomFilter whose loop stops one hash early.
RECURSIVE initBloomFilterStopsEarly(_, _)
initBloomFilterStopsEarly(bits, hashes) ==
    IF Len(hashes) <= 1 THEN bits
    ELSE LET maxBits == Len(bits) * 64
             idx == U64Mod(Head(hashes), maxBits)
         IN  initBloomFilterStopsEarly(
                 [bits EXCEPT ![(idx \div 64) + 1] = @ \cup {idx % 64}], Tail(hashes))

\* initBloomFilter(bits, hashes): sets bit h % maxBits for every hash.
RECURSIVE initBloomFilter(_, _)
initBloomFilter(bits, hashes) ==
    IF hashes = <<>> THEN bits
    ELSE LET maxBits == Len(bits) * 64
             idx == U64Mod(Head(hashes), maxBits)
             i == idx \div 64
             j == idx % 64
         IN  initBloomFilter([bits EXCEPT ![i + 1] = @ \cup {j}], Tail(hashes))

\* Writes the words of bits over the first Len(bits) words of the backing array.
WithBits(f, bits) ==
    [arr |-> [i \in 1..Len(f.arr) |-> IF i <= Len(bits) THEN bits[i] ELSE f.arr[i]],
     len |-> Len(bits)]

WordsCount(n) == (n * bloomFilterBitsPerItem + 63) \div 64

mustInitTokens(f, tokens) ==
    LET g == SetLength(f, WordsCount(Len(tokens)))
    IN  WithBits(g, initBloomFilter(Bits(g), appendTokensHashes(<<>>, tokens)))

mustInitHashes(f, hashes) ==
    LET g == SetLength(f, WordsCount(Len(hashes)))
    IN  WithBits(g, initBloomFilter(Bits(g), appendHashesHashes(<<>>, hashes)))

\* A variant of containsAll without the special case for an empty bit array:
\* no bit of an empty array is set.
containsAllProbesEmpty(f, hashes) ==
    IF Len(Bits(f)) = 0 THEN Len(hashes) = 0
    ELSE \A n \in 1..Len(hashes) :
            LET idx == U64Mod(hashes[n], Len(Bits(f)) * 64)
            IN  (idx % 64) \in Bits(f)[(idx \div 64) + 1]

\* containsAll(hashes): TRUE for an empty bit array, else every probed bit is set.
containsAll(f, hashes) ==
    LET bits == Bits(f)
        maxBits == Len(bits) * 64
    IN  IF Len(bits) = 0 THEN TRUE
        ELSE \A n \in 1..Len(hashes) :
                LET idx == U64Mod(hashes[n], maxBits)
                IN  (idx % 64) \in bits[(idx \div 64) + 1]

(***************************************************************************)
(* Serialisation                                                           *)
(***************************************************************************)
\* Byte k (0..7) of a word.
WordByte(w, k) ==
    LET S == {j \in 0..7 : (8 * k + j) \in w}
        RECURSIVE Sum(_)
        Sum(T) == IF T = {} THEN 0
                  ELSE LET j == CHOOSE x \in T : TRUE IN Pow2(j) + Sum(T \ {j})
    IN  Sum(S)

\* encoding.MarshalUint64: the 8 bytes of the word, least significant first.
MarshalUint64(d, w) == d \o [k \in 1..8 |-> WordByte(w, k - 1)]

\* encoding.UnmarshalUint64: the word held by the first 8 bytes of src.
UnmarshalUint64(src) ==
    {8 * k + j : k \in 0..7, j \in 0..7} \cap
        {p \in 0..63 : (src[(p \div 8) + 1] \div Pow2(p % 8)) % 2 = 1}

RECURSIVE marshalWords(_, _)
marshalWords(d, bits) ==
    IF bits = <<>> THEN d
    ELSE marshalWords(MarshalUint64(d, Head(bits)), Tail(bits))

marshal(d, f) == marshalWords(d, Bits(f))

\* A variant of the length check that only rejects lengths off a 4-byte boundary.
unmarshalFailsMod4(src) == Len(src) % 4 # 0

unmarshalFails(src) == Len(src) % 8 # 0

\* A variant of unmarshal that never advances src: every word is the first one.
unmarshalNoAdvance(f, src) ==
    LET g == SetLength(reset(f), Len(src) \div 8)
    IN  WithBits(g, [i \in 1..(Len(src) \div 8) |-> UnmarshalUint64(Slice(src, 0, 8))])

\* unmarshal(src) on success: reset, SetLength, one word per 8 bytes.
unmarshal(f, src) ==
    LET g == SetLength(reset(f), Len(src) \div 8)
    IN  WithBits(g, [i \in 1..(Len(src) \div 8) |->
                        UnmarshalUint64(Slice(src, 8 * (i - 1), 8 * i))])

(***************************************************************************)
(* The bloom filter scenario: one caller-supplied argument, then the       *)
(* operations of the filter in any order.                                  *)
(***************************************************************************)
\* "a", "ab"
TokenUniverse == {<<97>>, <<97, 98>>}

\* 2^64-2 (the chain wraps around to 0) and 1000
SeedUniverse ==
    {[k \in 1..8 |-> IF k = 1 THEN 254 ELSE 255], <<232, 3, 0, 0, 0, 0, 0, 0>>}

\* 0x00 and 0x81
SrcBytes == {0, 129}

Inputs ==
    [kind : {"tokens"}, v : SeqsUpTo(TokenUniverse, MaxItems)]
        \cup [kind : {"hashes"}, v : SeqsUpTo(SeedUniverse, MaxItems)]
        \cup [kind : {"bytes"}, v : SeqsUpTo(SrcBytes, MaxSrcLen)]

\* &bloomFilter{} : no backing array.
NewBloomFilter == [arr |-> <<>>, len |-> 0]

\* The other scenarios' variables while one scenario runs.
IdleBloom ==
    /\ input = [kind |-> "none", v |-> <<>>]
    /\ bf = [arr |-> <<>>, len |-> 0]
    /\ dst = <<>>
    /\ err = FALSE
    /\ lastOp = "new"
    /\ prevBf = [arr |-> <<>>, len |-> 0]
    /\ lastSrc = <<>>

IdleMatch ==
    /\ ms = <<>>
    /\ mlit = <<>>
    /\ mop = "none"
    /\ mres = FALSE

\* No filter instance is shared.
IdleOnce ==
    /\ odone = <<>>
    /\ omutex = <<>>
    /\ ofield = <<>>
    /\ oinits = <<>>
    /\ opc = <<>>
    /\ ocache = <<>>
    /\ ogot = <<>>

\* No block is being searched.
IdleApply ==
    /\ block = <<>>
    /\ bitmap = {}
    /\ bitmapInit = {}
    /\ bitmapBefore = {}
    /\ filter = <<>>
    /\ readSet = {}
    /\ branch = "none"
    /\ panicked = FALSE

IdleRange ==
    /\ rangeArgs = <<>>
    /\ rangeOp = "none"
    /\ rangeMatch = FALSE
    /\ rangeBitmap = {}

\* Nothing has been allocated and no pooled call runs.
IdlePool ==
    /\ bloomFilterPool = {}
    /\ bbPool = {}
    /\ bfHeap = <<>>
    /\ bbHeap = <<>>
    /\ poolPc = <<>>
    /\ poolCall = <<>>

IdleStream ==
    /\ fsF = <<>>
    /\ fsIdb = <<>>
    /\ fsOnceDone = FALSE
    /\ fsOnceMutex = 0
    /\ fsStreamIDs = <<>>
    /\ searchCalls = 0
    /\ fsPc = <<>>
    /\ fsRun = <<>>

InitBloom ==
    /\ IdlePool
    /\ IdleMatch
    /\ IdleOnce
    /\ IdleApply
    /\ IdleRange
    /\ IdleStream
    /\ input \in Inputs
    /\ bf = NewBloomFilter
    /\ dst = <<>>
    /\ err = FALSE
    /\ lastOp = "new"
    /\ prevBf = NewBloomFilter
    /\ lastSrc = <<>>

Reset ==
    /\ bf' = reset(bf)
    /\ prevBf' = bf
    /\ lastOp' = "reset"
    /\ UNCHANGED <<input, dst, err, lastSrc>>
    /\ UNCHANGED nonBloomVars

MustInitTokens ==
    /\ input.kind = "tokens"
    /\ bf' = mustInitTokens(bf, input.v)
    /\ prevBf' = bf
    /\ lastOp' = "mustInitTokens"
    /\ UNCHANGED <<input, dst, err, lastSrc>>
    /\ UNCHANGED nonBloomVars

MustInitHashes ==
    /\ input.kind = "hashes"
    /\ bf' = mustInitHashes(bf, input.v)
    /\ prevBf' = bf
    /\ lastOp' = "mustInitHashes"
    /\ UNCHANGED <<input, dst, err, lastSrc>>
    /\ UNCHANGED nonBloomVars

Marshal ==
    /\ dst' = marshal(<<>>, bf)
    /\ prevBf' = bf
    /\ lastOp' = "marshal"
    /\ UNCHANGED <<input, bf, err, lastSrc>>
    /\ UNCHANGED nonBloomVars

\* The bytes a reader may hand to unmarshal: the caller's raw bytes, or what
\* marshal wrote, whole or cut short by one byte or by one word.
UnmarshalSources ==
    (IF input.kind = "bytes" THEN {input.v} ELSE {})
        \cup {Slice(dst, 0, Len(dst) - c) : c \in {c \in {0, 1, 8} : c <= Len(dst)}}

Unmarshal ==
    \E src \in UnmarshalSources :
        /\ lastSrc' = src
        /\ prevBf' = bf
        /\ lastOp' = "unmarshal"
        /\ IF unmarshalFails(src)
              THEN err' = TRUE /\ bf' = bf
              ELSE err' = FALSE /\ bf' = unmarshal(bf, src)
        /\ UNCHANGED <<input, dst>>
        /\ UNCHANGED nonBloomVars

NextBloom ==
    \/ Reset
    \/ MustInitTokens
    \/ MustInitHashes
    \/ Marshal
    \/ Unmarshal

SpecBloom == InitBloom /\ [][NextBloom]_vars

(***************************************************************************)
(* Claims about the bloom filter (checked under SpecBloom)                 *)
(***************************************************************************)
\* C1: no false negatives.  After mustInitTokens(T) on a reset (empty) filter,
\* containsAll(appendTokensHashes(nil, T')) is TRUE for every sub-list T' of T;
\* likewise after mustInitHashes(H) with appendHashesHashes(nil, H').
C1_NoFalseNegatives ==
    /\ (lastOp = "mustInitTokens" /\ prevBf.len = 0) =>
          \A sub \in SubLists(input.v) : containsAll(bf, appendTokensHashes(<<>>, sub))
    /\ (lastOp = "mustInitHashes" /\ prevBf.len = 0) =>
          \A sub \in SubLists(input.v) : containsAll(bf, appendHashesHashes(<<>>, sub))

\* A two-word filter built from a token list with duplicates, which answers TRUE
\* for its own tokens and FALSE for a token that was not added.
C1_Witness ==
    /\ lastOp = "mustInitTokens"
    /\ prevBf.len = 0
    /\ Len(input.v) = MaxItems
    /\ bf.len >= 2
    /\ \E i, j \in 1..Len(input.v) : i # j /\ input.v[i] = input.v[j]
    /\ containsAll(bf, appendTokensHashes(<<>>, input.v))
    /\ \E t \in TokenUniverse : ~containsAll(bf, appendTokensHashes(<<>>, <<t>>))

\* C3: serialisation round-trips both ways.  unmarshal(marshal(nil, bf)) has the
\* words of bf (so containsAll answers alike), whether it is read into a new
\* filter or back into the one that held bf; and after a successful unmarshal(b),
\* marshal(nil) gives b back.
C3_RoundTrip ==
    /\ ~unmarshalFails(marshal(<<>>, bf))
    /\ Bits(unmarshal(NewBloomFilter, marshal(<<>>, bf))) = Bits(bf)
    /\ (lastOp = "unmarshal" /\ ~err /\ lastSrc = marshal(<<>>, prevBf)) =>
          Bits(bf) = Bits(prevBf)
    /\ (lastOp = "unmarshal" /\ ~err) => marshal(<<>>, bf) = lastSrc

\* A two-word filter with different words, read back from its own 16 bytes.
C3_Witness ==
    /\ lastOp = "unmarshal"
    /\ ~err
    /\ Len(lastSrc) = 16
    /\ bf.len = 2
    /\ bf.arr[1] # bf.arr[2]
    /\ lastSrc = marshal(<<>>, prevBf)
    /\ marshal(<<>>, bf) = lastSrc

\* C4: unmarshal returns an error exactly for the lengths that are not a multiple
\* of 8, and on error the receiver's bits are what they were before the call.
C4_UnmarshalError ==
    lastOp = "unmarshal" =>
        /\ err <=> (Len(lastSrc) % 8 # 0)
        /\ err => bf = prevBf

\* unmarshal of a cut-short input fails on a receiver that holds set bits.
C4_Witness ==
    /\ lastOp = "unmarshal"
    /\ err
    /\ Len(lastSrc) % 8 # 0
    /\ bf.len > 0
    /\ \E i \in 1..bf.len : bf.arr[i] # {}

\* unmarshal of the empty input succeeds and leaves an empty bit array.
C4_WitnessEmpty == lastOp = "unmarshal" /\ ~err /\ lastSrc = <<>> /\ prevBf.len > 0

(***************************************************************************)
(* UTF-8 decoding as the matchers use it (Go's unicode/utf8)               *)
(***************************************************************************)
\* utf8.RuneError, the rune U+FFFD
RuneError == 65533

\* utf8.RuneSelf: bytes below it are single-byte runes
RuneSelf == 128

\* utf8.UTFMax: the longest encoding of a rune
UTFMax == 4

\* The encoding length announced by a lead byte, 0 for a byte that starts no rune.
LeadSize(b) ==
    IF b < RuneSelf THEN 1
    ELSE IF b \in 194..223 THEN 2
    ELSE IF b \in 224..239 THEN 3
    ELSE IF b \in 240..244 THEN 4
    ELSE 0

\* The range accepted for the second byte after lead byte b.
SecondLo(b) == IF b = 224 THEN 160 ELSE IF b = 240 THEN 144 ELSE 128

SecondHi(b) == IF b = 237 THEN 159 ELSE IF b = 244 THEN 143 ELSE 191

IsContinuation(b) == b \in 128..191

\* utf8.RuneStart
RuneStart(b) == ~IsContinuation(b)

\* utf8.DecodeRuneInString: the first rune of s and its width; (RuneError, 1)
\* for an invalid encoding, (RuneError, 0) for the empty string.
DecodeRuneInString(s) ==
    LET bad == [r |-> RuneError, size |-> 1]
    IN  IF Len(s) = 0 THEN [r |-> RuneError, size |-> 0]
        ELSE IF s[1] < RuneSelf THEN [r |-> s[1], size |-> 1]
        ELSE IF LeadSize(s[1]) = 0 \/ Len(s) < LeadSize(s[1]) THEN bad
        ELSE IF s[2] < SecondLo(s[1]) \/ s[2] > SecondHi(s[1]) THEN bad
        ELSE IF LeadSize(s[1]) = 2
            THEN [r |-> (s[1] % 32) * 64 + (s[2] % 64), size |-> 2]
        ELSE IF ~IsContinuation(s[3]) THEN bad
        ELSE IF LeadSize(s[1]) = 3
            THEN [r |-> (s[1] % 16) * 4096 + (s[2] % 64) * 64 + (s[3] % 64), size |-> 3]
        ELSE IF ~IsContinuation(s[4]) THEN bad
        ELSE [r |-> (s[1] % 8) * 262144 + (s[2] % 64) * 4096 + (s[3] % 64) * 64 + (s[4] % 64),
              size |-> 4]

\* The backwards scan of DecodeLastRuneInString: from Go index start down to lim,
\* stopping at the first byte that can start a rune; lim - 1 when there is none.
RECURSIVE LastRuneStart(_, _, _)
LastRuneStart(s, start, lim) ==
    IF start < lim THEN start
    ELSE IF RuneStart(s[start + 1]) THEN start
    ELSE LastRuneStart(s, start - 1, lim)

\* utf8.DecodeLastRuneInString: the last rune of s and its width.
DecodeLastRuneInString(s) ==
    LET end == Len(s)
    IN  IF end = 0 THEN [r |-> RuneError, size |-> 0]
        ELSE IF s[end] < RuneSelf THEN [r |-> s[end], size |-> 1]
        ELSE LET start == Max(0, LastRuneStart(s, end - 2, Max(0, end - UTFMax)))
                 d == DecodeRuneInString(Slice(s, start, end))
             IN  IF start + d.size # end THEN [r |-> RuneError, size |-> 1] ELSE d

\* Letters outside ASCII that the model's strings can hold:
\* U+00E9, U+FF7D, U+FF7F.
NonASCIILetters == {233, 65405, 65407}

\* isTokenRune: a letter, a digit or '_'.
isTokenRune(r) ==
    \/ r \in 48..57
    \/ r \in 65..90
    \/ r \in 97..122
    \/ r = 95
    \/ r \in NonASCIILetters

\* strings.Index: the first Go index at which sub occurs in s, -1 if none.
Index(s, sub) ==
    LET at == {i \in 0..(Len(s) - Len(sub)) : Slice(s, i, i + Len(sub)) = sub}
    IN  IF at = {} THEN -1 ELSE CHOOSE i \in at : \A j \in at : i <= j

(***************************************************************************)
(* matchPrefix, matchPhrase                                                *)
(***************************************************************************)
\* r := rune(b[0]); if r >= utf8.RuneSelf { r, _ = utf8.DecodeRuneInString(b) }
FirstRune(b) == IF b[1] >= RuneSelf THEN DecodeRuneInString(b).r ELSE b[1]

\* r := rune(b[len(b)-1]); if r >= utf8.RuneSelf { r, _ = utf8.DecodeLastRuneInString(b) }
LastRune(b) == IF b[Len(b)] >= RuneSelf THEN DecodeLastRuneInString(b).r ELSE b[Len(b)]

\* The test both matchers make on a neighbouring rune: it is no boundary when
\* it decodes to utf8.RuneError or is a token rune.
NoBoundary(r) == r = RuneError \/ isTokenRune(r)

\* A variant of the loop that gives up at the first occurrence that is not at
\* a boundary instead of searching on.
matchPrefixFirstOccurrenceOnly(s, prefix, startsWithToken, offset) ==
    LET n == Index(Slice(s, offset, Len(s)), prefix)
        at == offset + n
    IN  /\ n >= 0
        /\ ~(startsWithToken /\ at > 0 /\ NoBoundary(LastRune(Slice(s, 0, at))))

\* The loop of matchPrefix, entered with the current offset.
RECURSIVE matchPrefixFrom(_, _, _, _)
matchPrefixFrom(s, prefix, startsWithToken, offset) ==
    LET n == Index(Slice(s, offset, Len(s)), prefix)
        at == offset + n
    IN  IF n < 0 THEN FALSE
        ELSE IF startsWithToken /\ at > 0 /\ NoBoundary(LastRune(Slice(s, 0, at)))
            THEN matchPrefixFrom(s, prefix, startsWithToken, at + 1)
        ELSE TRUE

matchPrefix(s, prefix) ==
    IF Len(prefix) = 0 THEN Len(s) > 0
    ELSE IF Len(prefix) > Len(s) THEN FALSE
    ELSE matchPrefixFrom(s, prefix, isTokenRune(FirstRune(prefix)), 0)

\* A variant of the loop without the test on the rune after the occurrence.
RECURSIVE getPhrasePosNoEndCheck(_, _, _, _, _)
getPhrasePosNoEndCheck(s, phrase, startsWithToken, endsWithToken, pos) ==
    LET n == Index(Slice(s, pos, Len(s)), phrase)
        at == pos + n
    IN  IF n < 0 THEN -1
        ELSE IF startsWithToken /\ at > 0 /\ NoBoundary(LastRune(Slice(s, 0, at)))
            THEN getPhrasePosNoEndCheck(s, phrase, startsWithToken, endsWithToken, at + 1)
        ELSE at

\* The loop of getPhrasePos, entered with the current pos.
RECURSIVE getPhrasePosFrom(_, _, _, _, _)
getPhrasePosFrom(s, phrase, startsWithToken, endsWithToken, pos) ==
    LET n == Index(Slice(s, pos, Len(s)), phrase)
        at == pos + n
        after == at + Len(phrase)
    IN  IF n < 0 THEN -1
        ELSE IF startsWithToken /\ at > 0 /\ NoBoundary(LastRune(Slice(s, 0, at)))
            THEN getPhrasePosFrom(s, phrase, startsWithToken, endsWithToken, at + 1)
        ELSE IF endsWithToken /\ after < Len(s)
                /\ NoBoundary(FirstRune(Slice(s, after, Len(s))))
            THEN getPhrasePosFrom(s, phrase, startsWithToken, endsWithToken, at + 1)
        ELSE at

getPhrasePos(s, phrase) ==
    IF Len(phrase) = 0 THEN 0
    ELSE IF Len(phrase) > Len(s) THEN -1
    ELSE getPhrasePosFrom(s, phrase, isTokenRune(FirstRune(phrase)),
                          isTokenRune(LastRune(phrase)), 0)

matchPhrase(s, phrase) ==
    IF Len(phrase) = 0 THEN Len(s) = 0 ELSE getPhrasePos(s, phrase) >= 0

(***************************************************************************)
(* Scenario: the matchers applied to byte strings                          *)
(***************************************************************************)
\* The longest enumerated string.
MaxStrLen == 4

\* 'a', ' ' and the bytes of the three-byte encodings EF BF BD (U+FFFD),
\* EF BF BF (U+FFFF, no letter), EF BD BD (U+FF7D, a letter).
MatchBytes == {97, 32, 239, 191, 189}

MatchStrings == SeqsUpTo(MatchBytes, MaxStrLen)

MatchLiterals ==
    { <<>>, <<97>>, <<32>>, <<97, 97>>, <<97, 32>>, <<32, 97>>, <<97, 32, 97>>,
      <<191>>, <<239, 189, 189>>, <<239, 191, 191>>, <<239, 191, 189>>,
      <<97, 239, 189, 189>> }

\* "foobar", "xfoobar", "foo", "a quick fox", "aquick fox", "quick", "x"
StrFoobar == <<102, 111, 111, 98, 97, 114>>

StrXfoobar == <<120>> \o StrFoobar

StrFoo == <<102, 111, 111>>

StrQuick == <<113, 117, 105, 99, 107>>

StrAQuickFox == <<97, 32>> \o StrQuick \o <<32, 102, 111, 120>>

StrAquickFox == <<97>> \o StrQuick \o <<32, 102, 111, 120>>

MatchExamples ==
    { <<StrFoobar, StrFoo>>, <<StrXfoobar, StrFoo>>,
      <<StrAQuickFox, StrQuick>>, <<StrAquickFox, StrQuick>>,
      <<<<120>>, <<>>>> }

InitMatch ==
    /\ IdlePool
    /\ IdleBloom
    /\ IdleOnce
    /\ IdleApply
    /\ IdleRange
    /\ IdleStream
    /\ \E p \in (MatchStrings \X MatchLiterals) \cup MatchExamples :
          /\ ms = p[1]
          /\ mlit = p[2]
    /\ mop = "none"
    /\ mres = FALSE

MatchPrefix ==
    /\ mop = "none"
    /\ mop' = "matchPrefix"
    /\ mres' = matchPrefix(ms, mlit)
    /\ UNCHANGED <<ms, mlit>>
    /\ UNCHANGED nonMatchVars

MatchPhrase ==
    /\ mop = "none"
    /\ mop' = "matchPhrase"
    /\ mres' = matchPhrase(ms, mlit)
    /\ UNCHANGED <<ms, mlit>>
    /\ UNCHANGED nonMatchVars

NextMatch ==
    \/ MatchPrefix
    \/ MatchPhrase

SpecMatch == InitMatch /\ [][NextMatch]_vars

\* lit occurs in s at Go index i.
OccursAt(s, lit, i) ==
    /\ i + Len(lit) <= Len(s)
    /\ Slice(s, i, i + Len(lit)) = lit

\* r is the result of decoding a rune that is valid and is no token rune.
ValidNonTokenRune(r) == r # RuneError /\ ~isTokenRune(r)

\* The boundary condition before an occurrence at i.
BoundaryBefore(s, lit, i) ==
    \/ ~isTokenRune(DecodeRuneInString(lit).r)
    \/ i = 0
    \/ ValidNonTokenRune(DecodeLastRuneInString(Slice(s, 0, i)).r)

\* The boundary condition after an occurrence at i.
BoundaryAfter(s, lit, i) ==
    \/ ~isTokenRune(DecodeLastRuneInString(lit).r)
    \/ i + Len(lit) = Len(s)
    \/ ValidNonTokenRune(DecodeRuneInString(Slice(s, i + Len(lit), Len(s))).r)

C7_WitnessExample == mop = "matchPrefix" /\ ms = StrXfoobar /\ mlit = StrFoo /\ ~mres

\* C8: matchPhrase(s, phrase) is len(s) == 0 for the empty phrase; for a
\* non-empty phrase it is true iff phrase occurs in s at some position i where
\* (the first rune of phrase is no token rune, or i = 0, or the rune before i is
\* a valid non-token rune) and (the last rune of phrase is no token rune, or the
\* occurrence ends at the end of s, or the rune after it is a valid non-token
\* rune); matchPhrase("a quick fox","quick") is true and
\* matchPhrase("aquick fox","quick") is false.
C8_MatchPhrase ==
    mop = "matchPhrase" =>
        /\ mres = IF mlit = <<>> THEN Len(ms) = 0
                  ELSE \E i \in 0..Len(ms) :
                          /\ OccursAt(ms, mlit, i)
                          /\ BoundaryBefore(ms, mlit, i)
                          /\ BoundaryAfter(ms, mlit, i)
        /\ (ms = StrAQuickFox /\ mlit = StrQuick) => mres
        /\ (ms = StrAquickFox /\ mlit = StrQuick) => ~mres

\* matchPhrase returned false for a token phrase that occurs at the start of s
\* followed by a token rune, and nowhere else.
C8_Witness ==
    /\ mop = "matchPhrase"
    /\ ~mres
    /\ mlit # <<>>
    /\ isTokenRune(DecodeLastRuneInString(mlit).r)
    /\ OccursAt(ms, mlit, 0)
    /\ ~BoundaryAfter(ms, mlit, 0)

\* matchPhrase returned true at an occurrence that is not the first one.
C8_WitnessLater ==
    /\ mop = "matchPhrase"
    /\ mres
    /\ mlit # <<>>
    /\ OccursAt(ms, mlit, 0)
    /\ ~BoundaryAfter(ms, mlit, 0)

(***************************************************************************)
(* Scenario: goroutines sharing one filter instance call its getters       *)
(***************************************************************************)
\* The number of goroutines that run apply on the shared filter.
NumGoroutines == 2

Goroutines == 1..NumGoroutines

\* The lazily derived caches: tokens (getTokens, getTokenSets), the lowercase
\* literal (getPrefixLowercase, getPhraseLowercase), the value sets of the
\* in-filter (getStringValues, getUint8Values, ...), streamIDs (getStreamIDs).
Caches == {"tokens", "lowercase", "values", "streamIDs"}

InitOnce ==
    /\ IdlePool
    /\ IdleBloom
    /\ IdleMatch
    /\ IdleApply
    /\ IdleRange
    /\ IdleStream
    /\ odone = [c \in Caches |-> FALSE]
    /\ omutex = [c \in Caches |-> 0]
    /\ ofield = [c \in Caches |-> "unset"]
    /\ oinits = [c \in Caches |-> 0]
    /\ opc = [g \in Goroutines |-> "idle"]
    /\ ocache = [g \in Goroutines |-> "none"]
    /\ ogot = [g \in Goroutines |-> "none"]

\* A variant of the mutex that never makes a goroutine wait.
MutexFreeAlways(c) == TRUE

\* sync.Mutex: Lock proceeds only when no goroutine holds the mutex.
MutexFree(c) == omutex[c] = 0

\* A getter is entered: x.someOnce.Do(x.initSome)
Call(g) ==
    /\ opc[g] = "idle"
    /\ \E c \in Caches : ocache' = [ocache EXCEPT ![g] = c]
    /\ opc' = [opc EXCEPT ![g] = "load"]
    /\ UNCHANGED <<odone, omutex, ofield, oinits, ogot>>
    /\ UNCHANGED nonOnceVars

\* Once.Do: if o.done.Load() == 0 { o.doSlow(f) }
LoadDone(g) ==
    /\ opc[g] = "load"
    /\ opc' = [opc EXCEPT ![g] = IF odone[ocache[g]] THEN "read" ELSE "lock"]
    /\ UNCHANGED <<odone, omutex, ofield, oinits, ocache, ogot>>
    /\ UNCHANGED nonOnceVars

\* doSlow: o.m.Lock()
Lock(g) ==
    /\ opc[g] = "lock"
    /\ MutexFree(ocache[g])
    /\ omutex' = [omutex EXCEPT ![ocache[g]] = g]
    /\ opc' = [opc EXCEPT ![g] = "locked"]
    /\ UNCHANGED <<odone, ofield, oinits, ocache, ogot>>
    /\ UNCHANGED nonOnceVars

\* doSlow: if o.done.Load() == 0 { defer o.done.Store(1); f() }
CheckDone(g) ==
    /\ opc[g] = "locked"
    /\ opc' = [opc EXCEPT ![g] = IF odone[ocache[g]] THEN "unlock" ELSE "init"]
    /\ UNCHANGED <<odone, omutex, ofield, oinits, ocache, ogot>>
    /\ UNCHANGED nonOnceVars

\* The init function starts to write the cache field (a slice or map header
\* and what it refers to are not written in one step).
InitBegin(g) ==
    /\ opc[g] = "init"
    /\ oinits' = [oinits EXCEPT ![ocache[g]] = Min(@ + 1, 2)]
    /\ ofield' = [ofield EXCEPT ![ocache[g]] = "partial"]
    /\ opc' = [opc EXCEPT ![g] = "initEnd"]
    /\ UNCHANGED <<odone, omutex, ocache, ogot>>
    /\ UNCHANGED nonOnceVars

\* The init function has written the whole cache field and returns.
InitEnd(g) ==
    /\ opc[g] = "initEnd"
    /\ ofield' = [ofield EXCEPT ![ocache[g]] = "full"]
    /\ opc' = [opc EXCEPT ![g] = "store"]
    /\ UNCHANGED <<odone, omutex, oinits, ocache, ogot>>
    /\ UNCHANGED nonOnceVars

\* The deferred o.done.Store(1)
StoreDone(g) ==
    /\ opc[g] = "store"
    /\ odone' = [odone EXCEPT ![ocache[g]] = TRUE]
    /\ opc' = [opc EXCEPT ![g] = "unlock"]
    /\ UNCHANGED <<omutex, ofield, oinits, ocache, ogot>>
    /\ UNCHANGED nonOnceVars

\* The deferred o.m.Unlock()
Unlock(g) ==
    /\ opc[g] = "unlock"
    /\ omutex' = [omutex EXCEPT ![ocache[g]] = 0]
    /\ opc' = [opc EXCEPT ![g] = "read"]
    /\ UNCHANGED <<odone, ofield, oinits, ocache, ogot>>
    /\ UNCHANGED nonOnceVars

\* The getter reads the cache field after Do has returned: return x.some
ReadCache(g) ==
    /\ opc[g] = "read"
    /\ ogot' = [ogot EXCEPT ![g] = ofield[ocache[g]]]
    /\ opc' = [opc EXCEPT ![g] = "got"]
    /\ UNCHANGED <<odone, omutex, ofield, oinits, ocache>>
    /\ UNCHANGED nonOnceVars

\* The caller has used the value; the goroutine may call a getter again.
Return(g) ==
    /\ opc[g] = "got"
    /\ ogot' = [ogot EXCEPT ![g] = "none"]
    /\ ocache' = [ocache EXCEPT ![g] = "none"]
    /\ opc' = [opc EXCEPT ![g] = "idle"]
    /\ UNCHANGED <<odone, omutex, ofield, oinits>>
    /\ UNCHANGED nonOnceVars

NextOnce ==
    \/ \E g \in Goroutines : Call(g)
    \/ \E g \in Goroutines : LoadDone(g)
    \/ \E g \in Goroutines : Lock(g)
    \/ \E g \in Goroutines : CheckDone(g)
    \/ \E g \in Goroutines : InitBegin(g)
    \/ \E g \in Goroutines : InitEnd(g)
    \/ \E g \in Goroutines : StoreDone(g)
    \/ \E g \in Goroutines : Unlock(g)
    \/ \E g \in Goroutines : ReadCache(g)
    \/ \E g \in Goroutines : Return(g)

SpecOnce == InitOnce /\ [][NextOnce]_vars

\* C6: for a filter instance shared by concurrently running apply calls, the
\* init function of each lazily derived cache is executed at most once, and
\* every reader that obtains the cache value sees the fully initialised value,
\* never a partially written or unwritten one.
C6_ComputeOnce ==
    /\ \A c \in Caches : oinits[c] <= 1
    /\ \A g \in Goroutines : opc[g] = "got" => ogot[g] = "full"

\* Two goroutines raced for the same cache: one ran its init function while
\* the other waited for the mutex, and both have obtained the value.
C6_Witness ==
    \E c \in Caches :
        /\ oinits[c] = 1
        /\ \A g \in Goroutines : opc[g] = "got" /\ ocache[g] = c

\* One goroutine is inside the init function while another waits for the mutex.
C6_WitnessRace ==
    \E g, h \in Goroutines :
        /\ opc[g] = "initEnd"
        /\ opc[h] = "lock"
        /\ ocache[g] = ocache[h]

(***************************************************************************)
(* Strings, numbers and their renderings as the filters use them           *)
(***************************************************************************)
\* Go's comparison of strings: bytewise lexicographic a < b.
RECURSIVE StrLess(_, _)
StrLess(a, b) ==
    IF b = <<>> THEN FALSE
    ELSE IF a = <<>> THEN TRUE
    ELSE IF a[1] # b[1] THEN a[1] < b[1]
    ELSE StrLess(Tail(a), Tail(b))

\* strings.ToLower / stringsutil.AppendLowercase on the bytes the model uses
\* (ASCII letters change, every other byte stays).
ToLower(s) == [i \in 1..Len(s) |-> IF s[i] \in 65..90 THEN s[i] + 32 ELSE s[i]]

\* strings.ToUpper on the bytes the model uses.
ToUpper(s) == [i \in 1..Len(s) |-> IF s[i] \in 97..122 THEN s[i] - 32 ELSE s[i]]

\* isASCIILowercase: no byte is above ASCII or an upper-case letter.
isASCIILowercase(s) == \A i \in 1..Len(s) : s[i] < RuneSelf /\ s[i] \notin 65..90

matchAnyCasePrefix(s, prefixLowercase) ==
    IF Len(prefixLowercase) = 0 THEN Len(s) > 0
    ELSE IF Len(prefixLowercase) > Len(s) THEN FALSE
    ELSE IF isASCIILowercase(s) THEN matchPrefix(s, prefixLowercase)
    ELSE matchPrefix(ToLower(s), prefixLowercase)

matchAnyCasePhrase(s, phraseLowercase) ==
    IF Len(phraseLowercase) = 0 THEN Len(s) = 0
    ELSE IF Len(phraseLowercase) > Len(s) THEN FALSE
    ELSE IF isASCIILowercase(s) THEN matchPhrase(s, phraseLowercase)
    ELSE matchPhrase(ToLower(s), phraseLowercase)

\* utf8.RuneCountInString
RECURSIVE RuneCountInString(_)
RuneCountInString(s) ==
    IF s = <<>> THEN 0
    ELSE 1 + RuneCountInString(Slice(s, DecodeRuneInString(s).size, Len(s)))

\* strconv.AppendUint(nil, n, 10)
RECURSIVE AppendUint(_)
AppendUint(n) ==
    IF n < 10 THEN <<48 + n>> ELSE AppendUint(n \div 10) \o <<48 + (n % 10)>>

\* The number written by a string of decimal digits.
RECURSIVE DigitsValue(_)
DigitsValue(s) ==
    IF s = <<>> THEN 0 ELSE DigitsValue(Slice(s, 0, Len(s) - 1)) * 10 + (s[Len(s)] - 48)

IsDigits(s) == Len(s) > 0 /\ \A i \in 1..Len(s) : s[i] \in 48..57

\* tryParseUint64: a non-empty string of decimal digits (the model's numbers
\* have at most 9 digits).
tryParseUint64(s) ==
    IF IsDigits(s) /\ Len(s) <= 9 THEN [ok |-> TRUE, n |-> DigitsValue(s)]
    ELSE [ok |-> FALSE, n |-> 0]

\* The Go indexes of byte c in s.
IndexesOf(s, c) == {i \in 0..(Len(s) - 1) : s[i + 1] = c}

\* tryParseFloat64: [-]digits[.digit]; the value is kept in tenths.
tryParseFloat64(s) ==
    LET neg == Len(s) > 0 /\ s[1] = 45
        body == IF neg THEN Tail(s) ELSE s
        dots == IndexesOf(body, 46)
        dot == IF dots = {} THEN Len(body) ELSE CHOOSE i \in dots : TRUE
        int == Slice(body, 0, dot)
        frac == Slice(body, Min(dot + 1, Len(body)), Len(body))
        ok == /\ Cardinality(dots) <= 1
              /\ IsDigits(int) /\ Len(int) <= 7
              /\ (dots = {} \/ (IsDigits(frac) /\ Len(frac) = 1))
        abs == DigitsValue(int) * 10 + (IF frac = <<>> THEN 0 ELSE DigitsValue(frac))
    IN  IF ok THEN [ok |-> TRUE, f |-> IF neg THEN 0 - abs ELSE abs]
        ELSE [ok |-> FALSE, f |-> 0]

\* toFloat64String on a value kept in tenths.
Float64String(f) ==
    LET abs == IF f < 0 THEN 0 - f ELSE f
        text == IF abs % 10 = 0 THEN AppendUint(abs \div 10)
                ELSE AppendUint(abs \div 10) \o <<46, 48 + (abs % 10)>>
    IN  IF f < 0 THEN <<45>> \o text ELSE text

\* math.Float64bits on the floats the model uses, most significant byte first:
\* 0, 0.5, 1, 1.5, 2, 3, 9.5, 12, 256, -1, -1.5.
Float64bitsTable ==
    [f \in {0, 5, 10, 15, 20, 30, 95, 120, 2560, -10, -15} |->
        CASE f = 0 -> <<0, 0>>
          [] f = 5 -> <<63, 224>>
          [] f = 10 -> <<63, 240>>
          [] f = 15 -> <<63, 248>>
          [] f = 20 -> <<64, 0>>
          [] f = 30 -> <<64, 8>>
          [] f = 95 -> <<64, 35>>
          [] f = 120 -> <<64, 40>>
          [] f = 2560 -> <<64, 112>>
          [] f = -10 -> <<191, 240>>
          [] f = -15 -> <<191, 248>>]

\* tryParseIPv4: four dot-separated decimal numbers of 1..3 digits, each at
\* most 255; the address is the 32-bit number with the first part on top
\* (the model's addresses are below 128.0.0.0).
tryParseIPv4(s) ==
    LET dots == IndexesOf(s, 46)
        cut(k) == IF k = 0 THEN -1
                  ELSE IF k = 4 THEN Len(s)
                  ELSE CHOOSE i \in dots : Cardinality({j \in dots : j < i}) = k - 1
        part(k) == Slice(s, cut(k - 1) + 1, cut(k))
        ok == /\ Cardinality(dots) = 3
              /\ \A k \in 1..4 : /\ IsDigits(part(k))
                                 /\ Len(part(k)) <= 3
                                 /\ DigitsValue(part(k)) <= 255
        b(k) == DigitsValue(part(k))
    IN  IF ok
        THEN [ok |-> TRUE, n |-> ((b(1) * 256 + b(2)) * 256 + b(3)) * 256 + b(4)]
        ELSE [ok |-> FALSE, n |-> 0]

\* toIPv4String on the number of an address.
IPv4String(n) ==
    AppendUint(n \div 16777216) \o <<46>> \o AppendUint((n \div 65536) % 256) \o <<46>>
        \o AppendUint((n \div 256) % 256) \o <<46>> \o AppendUint(n % 256)

\* "1970-01-01T00:00:0", the text every timestamp of the model starts with
\* (the model's timestamps are below 10 seconds after the epoch).
TimestampHead == <<49, 57, 55, 48, 45, 48, 49, 45, 48, 49, 84, 48, 48, 58, 48, 48, 58, 48>>

\* len(iso8601Timestamp), the length of "2006-01-02T15:04:05.000Z"
iso8601TimestampLen == 24

\* tryParseTimestampISO8601: the nanoseconds of "1970-01-01T00:00:0s.mmmZ",
\* kept in milliseconds.
tryParseTimestampISO8601(s) ==
    IF /\ Len(s) = iso8601TimestampLen
       /\ Slice(s, 0, 18) = TimestampHead
       /\ IsDigits(Slice(s, 18, 19)) /\ s[20] = 46
       /\ IsDigits(Slice(s, 20, 23)) /\ s[24] = 90
    THEN [ok |-> TRUE, n |-> DigitsValue(Slice(s, 18, 19)) * 1000 + DigitsValue(Slice(s, 20, 23))]
    ELSE [ok |-> FALSE, n |-> 0]

\* toTimestampISO8601String on a timestamp kept in milliseconds.
TimestampISO8601String(n) ==
    LET ms3 == AppendUint(1000 + (n % 1000))
    IN  TimestampHead \o AppendUint((n \div 1000) % 10) \o <<46>> \o Tail(ms3) \o <<90>>

\* encoding.MarshalUint16 / MarshalUint32 / MarshalUint64 and byte(n) on a
\* number below 2^31: the w low bytes, least significant first.
MarshalUint(n, w) ==
    [k \in 1..w |-> IF k > 4 THEN 0 ELSE (n \div (256 ^ (k - 1))) % 256]

\* encoding.UnmarshalUint16 / UnmarshalUint32 / UnmarshalUint64 and uint64(v[0]).
RECURSIVE UnmarshalUint(_)
UnmarshalUint(v) ==
    IF v = <<>> THEN 0 ELSE v[1] + 256 * UnmarshalUint(Tail(v))

\* The stored form of a float: its IEEE-754 bits, least significant byte first.
MarshalFloat64(f) == <<0, 0, 0, 0, 0, 0, Float64bitsTable[f][2], Float64bitsTable[f][1]>>

\* math.Float64frombits(encoding.UnmarshalUint64(v))
UnmarshalFloat64(v) == CHOOSE f \in DOMAIN Float64bitsTable : MarshalFloat64(f) = v

\* The tokens of one string appended to acc: the maximal runs of token runes
\* of s that acc does not hold yet, in the order of their first occurrence.
RECURSIVE tokenizeFrom(_, _, _)
tokenizeFrom(s, cur, acc) ==
    LET flush == IF cur = <<>> \/ (\E i \in 1..Len(acc) : acc[i] = cur) THEN acc
                 ELSE Append(acc, cur)
        d == DecodeRuneInString(s)
    IN  IF s = <<>> THEN flush
        ELSE IF isTokenRune(d.r)
            THEN tokenizeFrom(Slice(s, d.size, Len(s)), cur \o Slice(s, 0, d.size), acc)
        ELSE tokenizeFrom(Slice(s, d.size, Len(s)), <<>>, flush)

\* The strings of list one after another.
RECURSIVE ConcatAll(_)
ConcatAll(list) ==
    IF list = <<>> THEN <<>> ELSE Head(list) \o ConcatAll(Tail(list))

\* The distinct elements of list, in the order of their first occurrence.
Unique(list) ==
    LET first == {k \in 1..Len(list) : \A j \in 1..(k - 1) : list[j] # list[k]}
    IN  [n \in 1..Cardinality(first) |->
            list[CHOOSE k \in first : Cardinality({j \in first : j < k}) = n - 1]]

\* tokenizeStrings(dst, a): the distinct tokens of the strings of a, appended to d.
tokenizeStrings(d, a) ==
    d \o Unique(ConcatAll([i \in 1..Len(a) |-> tokenizeFrom(a[i], <<>>, <<>>)]))

RECURSIVE getTokensSkipLast(_)
getTokensSkipLast(s) ==
    LET d == DecodeLastRuneInString(s)
    IN  IF ~isTokenRune(d.r) THEN tokenizeStrings(<<>>, <<s>>)
        ELSE getTokensSkipLast(Slice(s, 0, Len(s) - d.size))

matchIPv4Range(s, minValue, maxValue) ==
    LET p == tryParseIPv4(s)
    IN  p.ok /\ p.n >= minValue /\ p.n <= maxValue

\* A variant of matchStringRange that accepts the upper bound.
matchStringRangeClosed(s, minValue, maxValue) == ~StrLess(s, minValue) /\ ~StrLess(maxValue, s)

matchStringRange(s, minValue, maxValue) == ~StrLess(s, minValue) /\ StrLess(s, maxValue)

\* A variant of matchLenRange that counts bytes.
matchLenRangeCountsBytes(s, minLen, maxLen) == Len(s) >= minLen /\ Len(s) <= maxLen

matchLenRange(s, minLen, maxLen) ==
    RuneCountInString(s) >= minLen /\ RuneCountInString(s) <= maxLen

matchRange(s, minValue, maxValue) ==
    LET p == tryParseFloat64(s)
    IN  p.ok /\ p.f >= minValue /\ p.f <= maxValue

\* toUint64Clamp(math.Ceil(f)) and toUint64Clamp(math.Floor(f)) on a float kept in tenths.
toUint64ClampCeil(f) == IF f < 0 THEN 0 ELSE (f + 9) \div 10

toUint64ClampFloor(f) == IF f < 0 THEN 0 ELSE f \div 10

\* matchMinMaxValueLen: the decimal lengths of the column's bounds meet [minLen, maxLen].
matchMinMaxValueLen(ch, minLen, maxLen) ==
    IF maxLen < Len(AppendUint(ch.minValue)) THEN FALSE
    ELSE minLen <= Len(AppendUint(ch.maxValue))

\* regexp.MatchString for the patterns of the model, which are literal texts:
\* the text occurs in s.
MatchString(re, s) == Index(s, re) >= 0

(***************************************************************************)
(* Filters applied to a block                                              *)
(*                                                                         *)
(* A filter is [kind, s1, s2, vals, n1, n2]: s1 is the literal (value,     *)
(* prefix, phrase, pattern, stream selector) or the lower string bound, s2 *)
(* the upper string bound, vals the literals of in(...) or the stream ids  *)
(* found for a stream filter, n1 and n2 the numeric bounds.                *)
(* A block is [constValue, hasHeader, ch, values, bf, streamID] for the    *)
(* filter's field: ch = [valueType, minValue, maxValue, dict].             *)
(* A bitmap is the set of row indexes whose bit is set.                    *)
(***************************************************************************)
\* maxTokenSetsToInit: it is faster to match every row than to check too
\* many token sets.  The program's limit is 1000; the model scales it down to
\* 2, so that a list of three literals and a literal of three tokens exceed it.
maxTokenSetsToInit == 2

UintTypes == {"uint8", "uint16", "uint32", "uint64"}

\* The length the matchers demand of a stored value of type t.
ValueWidth(t) ==
    CASE t \in {"uint8", "dict"} -> 1
      [] t = "uint16" -> 2
      [] t \in {"uint32", "ipv4"} -> 4
      [] OTHER -> 8

\* The number stored in a value of type t.
ValueNumber(t, v) == IF t = "float64" THEN UnmarshalFloat64(v) ELSE UnmarshalUint(v)

\* toUint8String .. toTimestampISO8601StringExt on a value of the demanded length.
ValueString(t, v) ==
    CASE t \in UintTypes -> AppendUint(UnmarshalUint(v))
      [] t = "float64" -> Float64String(UnmarshalFloat64(v))
      [] t = "ipv4" -> IPv4String(UnmarshalUint(v))
      [] t = "timestamp" -> TimestampISO8601String(UnmarshalUint(v))

\* tryParseUint64 / tryParseFloat64 / tryParseIPv4 / tryParseTimestampISO8601 by type.
tryParse(t, s) ==
    CASE t \in UintTypes -> tryParseUint64(s)
      [] t = "float64" -> [ok |-> tryParseFloat64(s).ok, n |-> tryParseFloat64(s).f]
      [] t = "ipv4" -> tryParseIPv4(s)
      [] t = "timestamp" -> tryParseTimestampISO8601(s)

\* The stored form of number n in a column of type t.
MarshalValue(t, n) ==
    IF t = "float64" THEN MarshalFloat64(n) ELSE MarshalUint(n, ValueWidth(t))

\* The primitive matcher of each filter variant on a string value.
matchValue(f, v) ==
    CASE f.kind = "exact" -> v = f.s1
      [] f.kind = "in" -> \E i \in 1..Len(f.vals) : f.vals[i] = v
      [] f.kind = "ipv4_range" -> matchIPv4Range(v, f.n1, f.n2)
      [] f.kind = "string_range" -> matchStringRange(v, f.s1, f.s2)
      [] f.kind = "len_range" -> matchLenRange(v, f.n1, f.n2)
      [] f.kind = "range" -> matchRange(v, f.n1, f.n2)
      [] f.kind = "regexp" -> MatchString(f.s1, v)
      [] f.kind = "prefix" -> matchPrefix(v, f.s1)
      [] f.kind = "any_case_prefix" -> matchAnyCasePrefix(v, ToLower(f.s1))
      [] f.kind = "phrase" -> matchPhrase(v, f.s1)
      [] f.kind = "any_case_phrase" -> matchAnyCasePhrase(v, ToLower(f.s1))

\* The literal handed to the per-type matchers: the any-case filters hand
\* over the lowercase literal, and the uppercase one for timestamp columns.
Literal(f, t) ==
    IF f.kind \in {"any_case_prefix", "any_case_phrase"}
    THEN IF t = "timestamp" THEN ToUpper(f.s1) ELSE ToLower(f.s1)
    ELSE f.s1

\* The test the per-type matchers make on the rendered text of a stored number.
matchRendered(f, t, s) ==
    CASE f.kind \in {"prefix", "any_case_prefix"} -> matchPrefix(s, Literal(f, t))
      [] f.kind \in {"phrase", "any_case_phrase"} -> matchPhrase(s, Literal(f, t))
      [] OTHER -> matchValue(f, s)

\* getTokens of the exact, prefix and phrase filters.
getTokens(f) ==
    IF f.kind \in {"prefix", "any_case_prefix"} THEN getTokensSkipLast(f.s1)
    ELSE tokenizeStrings(<<>>, <<f.s1>>)

\* getTokenSets of the in-filter: one token list per literal, stopping after
\* a literal with more than maxTokenSetsToInit tokens.
getTokenSets(f) ==
    LET over == {i \in 1..Len(f.vals) : Len(tokenizeStrings(<<>>, <<f.vals[i]>>)) > maxTokenSetsToInit}
        n == IF over = {} THEN Len(f.vals) ELSE CHOOSE i \in over : \A j \in over : i <= j
    IN  [i \in 1..n |-> tokenizeStrings(<<>>, <<f.vals[i]>>)]

\* getUint8Values .. getTimestampISO8601Values of the in-filter: the stored
\* forms of the literals that parse as type t (and fit its width).
getBinValues(f, t) ==
    {MarshalValue(t, tryParse(t, f.vals[i]).n) :
        i \in {j \in 1..Len(f.vals) :
                 /\ tryParse(t, f.vals[j]).ok
                 /\ (t = "uint8" => tryParse(t, f.vals[j]).n < 256)
                 /\ (t = "uint16" => tryParse(t, f.vals[j]).n < 65536)}}

\* What a per-type matcher decides before it looks at rows: act is "reset",
\* "keep", "visit" or "panic"; bloom says which bloom pre-check precedes the
\* visit; test, lit, set, lo, hi describe the test made on each visited row.
Plan(act, bloom, test, lit, set, lo, hi) ==
    [act |-> act, bloom |-> bloom, test |-> test, lit |-> lit, set |-> set, lo |-> lo, hi |-> hi]

\* resetBits before any row is looked at, and the fast path that returns at once.
ResetPlan == Plan("reset", "none", "none", <<>>, {}, 0, 0)

KeepPlan == Plan("keep", "none", "none", <<>>, {}, 0, 0)

\* A variant of the dict matchers that numbers the dictionary entries from one.
TextColumnPlanFromOne(f, ch) ==
    IF ch.valueType = "string"
    THEN Plan("visit",
              IF f.kind \in {"exact", "prefix", "phrase"} THEN "all"
              ELSE IF f.kind = "in" THEN "any" ELSE "none",
              "value", <<>>, {}, 0, 0)
    ELSE LET encodedValues == {i \in 1..Len(ch.dict) : matchValue(f, ch.dict[i])}
         IN  IF encodedValues = {} THEN ResetPlan
             ELSE Plan("visit", "none", "dict", <<>>, encodedValues, 0, 0)

\* The per-type matchers of string and dict columns.
TextColumnPlan(f, ch) ==
    IF ch.valueType = "string"
    THEN Plan("visit",
              IF f.kind \in {"exact", "prefix", "phrase"} THEN "all"
              ELSE IF f.kind = "in" THEN "any" ELSE "none",
              "value", <<>>, {}, 0, 0)
    ELSE LET encodedValues == {i \in 0..(Len(ch.dict) - 1) : matchValue(f, ch.dict[i + 1])}
         IN  IF encodedValues = {} THEN ResetPlan
             ELSE Plan("visit", "none", "dict", <<>>, encodedValues, 0, 0)

\* A visit that renders each stored number and tests the text against lit.
TextPlan(bloom, lit) == Plan("visit", bloom, "text", lit, {}, 0, 0)

\* A visit that compares each stored number with the bounds.
NumberPlan(lo, hi) == Plan("visit", "none", "number", <<>>, {}, lo, hi)

\* match<Type>ByExactValue, followed by matchBinaryValue: p is the parsed literal.
ExactValuePlan(ch, p) ==
    IF ~p.ok \/ p.n < ch.minValue \/ p.n > ch.maxValue THEN ResetPlan
    ELSE Plan("visit", "all", "binary", MarshalValue(ch.valueType, p.n), {}, 0, 0)

\* "." and "+" and "-"
FloatSigns == {<<46>>, <<43>>, <<45>>}

\* strings.IndexByte(s, '.')
IndexOfDot(s) ==
    IF IndexesOf(s, 46) = {} THEN -1
    ELSE CHOOSE i \in IndexesOf(s, 46) : \A j \in IndexesOf(s, 46) : i <= j

\* match<Type>ByPrefix
PrefixPlan(ch, lit, p) ==
    IF lit = <<>> THEN KeepPlan
    ELSE CASE ch.valueType \in UintTypes ->
                IF ~p.ok \/ p.n > ch.maxValue THEN ResetPlan ELSE TextPlan("none", lit)
           [] ch.valueType = "float64" ->
                IF ~p.ok /\ lit \notin FloatSigns /\ lit[1] \notin {101, 69}
                THEN ResetPlan ELSE TextPlan("all", lit)
           [] OTHER -> TextPlan("all", lit)

\* match<Type>ByPhrase
PhrasePlan(ch, lit, p) ==
    IF ch.valueType \in UintTypes THEN ExactValuePlan(ch, p)
    ELSE IF ch.valueType = "float64"
        THEN IF ~p.ok /\ lit \notin FloatSigns THEN ResetPlan
             ELSE IF IndexOfDot(lit) > 0 /\ IndexOfDot(lit) < Len(lit) - 1 THEN ExactValuePlan(ch, p)
             ELSE TextPlan("all", lit)
    ELSE IF p.ok THEN ExactValuePlan(ch, p) ELSE TextPlan("all", lit)

\* match<Type>ByLenRange
LenRangePlan(f, ch) ==
    CASE ch.valueType \in UintTypes ->
            IF matchMinMaxValueLen(ch, f.n1, f.n2) THEN TextPlan("none", <<>>) ELSE ResetPlan
      [] ch.valueType = "float64" ->
            IF f.n1 > 24 \/ f.n2 = 0 THEN ResetPlan ELSE TextPlan("none", <<>>)
      [] ch.valueType = "ipv4" ->
            IF f.n1 > 15 \/ f.n2 < 7 THEN ResetPlan ELSE TextPlan("none", <<>>)
      [] ch.valueType = "timestamp" ->
            IF f.n1 > iso8601TimestampLen \/ f.n2 < iso8601TimestampLen
            THEN ResetPlan ELSE KeepPlan

\* A variant of the numeric range that compares the stored number of ipv4 and
\* timestamp columns too.
RangePlanComparesEveryType(f, ch) ==
    IF ch.valueType \in {"ipv4", "timestamp"} THEN NumberPlan(f.n1, f.n2)
    ELSE IF ch.valueType = "float64"
        THEN IF f.n1 > ch.maxValue \/ f.n2 < ch.minValue THEN ResetPlan ELSE NumberPlan(f.n1, f.n2)
    ELSE IF f.n2 < 0 \/ toUint64ClampCeil(f.n1) > ch.maxValue \/ toUint64ClampFloor(f.n2) < ch.minValue
        THEN ResetPlan
    ELSE NumberPlan(toUint64ClampCeil(f.n1), toUint64ClampFloor(f.n2))

\* match<Type>ByRange
RangePlan(f, ch) ==
    CASE ch.valueType \in UintTypes ->
            IF \/ f.n2 < 0
               \/ toUint64ClampCeil(f.n1) > ch.maxValue
               \/ toUint64ClampFloor(f.n2) < ch.minValue
            THEN ResetPlan
            ELSE NumberPlan(toUint64ClampCeil(f.n1), toUint64ClampFloor(f.n2))
      [] ch.valueType = "float64" ->
            IF f.n1 > ch.maxValue \/ f.n2 < ch.minValue THEN ResetPlan
            ELSE NumberPlan(f.n1, f.n2)
      [] OTHER -> ResetPlan

\* The per-type matchers of uint8..uint64, float64, ipv4 and timestamp
\* columns: lit is the literal handed over and p what it parses to.
NumericPlan(f, ch, lit, p) ==
    CASE f.kind = "exact" -> ExactValuePlan(ch, p)
      [] f.kind \in {"phrase", "any_case_phrase"} -> PhrasePlan(ch, lit, p)
      [] f.kind = "in" -> Plan("visit", "any", "set", <<>>, getBinValues(f, ch.valueType), 0, 0)
      [] f.kind = "ipv4_range" ->
            IF ch.valueType # "ipv4" THEN ResetPlan
            ELSE IF ch.minValue > f.n2 \/ ch.maxValue < f.n1 THEN ResetPlan
            ELSE NumberPlan(f.n1, f.n2)
      [] f.kind = "string_range" ->
            IF \/ StrLess(<<57>>, f.s1)
               \/ StrLess(f.s2, IF ch.valueType = "float64" THEN <<43>> ELSE <<48>>)
            THEN ResetPlan ELSE TextPlan("none", <<>>)
      [] f.kind = "len_range" -> LenRangePlan(f, ch)
      [] f.kind = "range" -> RangePlan(f, ch)
      [] f.kind = "regexp" -> TextPlan("none", <<>>)
      [] f.kind \in {"prefix", "any_case_prefix"} -> PrefixPlan(ch, lit, p)

NumericColumnPlan(f, ch) ==
    NumericPlan(f, ch, Literal(f, ch.valueType), tryParse(ch.valueType, Literal(f, ch.valueType)))

\* A variant of the switch whose default case clears the bitmap and returns.
ColumnPlanUnknownResets(f, ch) ==
    CASE ch.valueType \in {"string", "dict"} -> TextColumnPlan(f, ch)
      [] ch.valueType \in UintTypes \cup {"float64", "ipv4", "timestamp"} -> NumericColumnPlan(f, ch)
      [] OTHER -> ResetPlan

\* The switch on ch.valueType that ends every apply.
ColumnPlan(f, ch) ==
    CASE ch.valueType \in {"string", "dict"} -> TextColumnPlan(f, ch)
      [] ch.valueType \in UintTypes \cup {"float64", "ipv4", "timestamp"} -> NumericColumnPlan(f, ch)
      [] OTHER -> Plan("panic", "none", "none", <<>>, {}, 0, 0)

\* The callback given to visitValues, on the stored value v of one row:
\* "match", "no", or "panic" where the matcher calls logger.Panicf.
RowResult(f, ch, plan, v) ==
    LET t == ch.valueType
        yes(b) == IF b THEN "match" ELSE "no"
    IN  CASE plan.test = "value" -> yes(matchValue(f, v))
          [] plan.test = "binary" -> yes(v = plan.lit)
          [] plan.test = "set" -> yes(v \in plan.set)
          [] plan.test = "dict" ->
                IF Len(v) # 1 THEN "panic" ELSE yes(v[1] \in plan.set)
          [] plan.test = "text" ->
                IF Len(v) # ValueWidth(t) THEN "panic"
                ELSE yes(matchRendered(f, t, ValueString(t, v)))
          [] plan.test = "number" ->
                IF Len(v) # ValueWidth(t) THEN "panic"
                ELSE yes(ValueNumber(t, v) >= plan.lo /\ ValueNumber(t, v) <= plan.hi)

\* A variant of forEachSetBit that ends the visit at the first row the callback
\* rejects, leaving the later bits as they were.
forEachSetBitStopsAtFirstMiss(bm, result) ==
    LET stops == {i \in bm : result[i] # "match"}
    IN  [bm |-> {i \in bm : (\E j \in stops : j < i) \/ result[i] = "match"},
         fatal |-> \E i \in stops : result[i] = "panic"]

\* bitmap.forEachSetBit as visitValues uses it: visits the set bits in
\* ascending order and clears those for which the callback says no; a panic
\* of the callback ends the visit.
forEachSetBit(bm, result) ==
    LET panics == {i \in bm : result[i] = "panic"}
    IN  [bm |-> {i \in bm : (\E j \in panics : j <= i) \/ result[i] = "match"},
         fatal |-> panics # {}]

\* Every row is visited and its bit set to the answer of the callback.
forEachBit(result) ==
    [bm |-> {i \in DOMAIN result : result[i] = "match"},
     fatal |-> \E i \in DOMAIN result : result[i] = "panic"]

\* A variant of visitValues that visits the rows whose bit is clear as well.
visitValuesEveryRow(f, blk, plan, bm) ==
    forEachBit([i \in 0..(Len(blk.values) - 1) |->
                    RowResult(f, blk.ch, plan, blk.values[i + 1])])

\* visitValues: nothing to visit for a zero bitmap, else the rows whose bit is set.
visitValues(f, blk, plan, bm) ==
    IF bm = {} THEN [bm |-> bm, fatal |-> FALSE]
    ELSE forEachSetBit(bm, [i \in 0..(Len(blk.values) - 1) |->
                                RowResult(f, blk.ch, plan, blk.values[i + 1])])

matchBloomFilterAllTokens(blk, tokens) ==
    IF Len(tokens) = 0 THEN TRUE
    ELSE containsAll(blk.bf, appendTokensHashes(<<>>, tokens))

\* The token sets are too many for the bloom filter to be worth consulting.
TooManyTokenSets(blk, tokenSets) ==
    Len(tokenSets) > maxTokenSetsToInit \/ Len(tokenSets) > 10 * Len(blk.values)

matchBloomFilterAnyTokenSet(blk, tokenSets) ==
    IF Len(tokenSets) = 0 THEN FALSE
    ELSE IF TooManyTokenSets(blk, tokenSets) THEN TRUE
    ELSE \E i \in 1..Len(tokenSets) :
            containsAll(blk.bf, appendTokensHashes(<<>>, tokenSets[i]))

\* What one call of apply does: the bitmap it leaves, whether it ended in
\* logger.Panicf, what it read of the block, and the branch it took.
Outcome(bm, fatal, reads, path) ==
    [bm |-> bm, fatal |-> fatal, reads |-> reads, path |-> path]

\* Whether the bloom pre-check of the plan reads the bloom filter of the column.
BloomFilterRead(f, blk, plan) ==
    IF plan.bloom = "all" THEN Len(getTokens(f)) > 0
    ELSE IF plan.bloom = "any"
        THEN Len(getTokenSets(f)) > 0 /\ ~TooManyTokenSets(blk, getTokenSets(f))
    ELSE FALSE

\* The bloom pre-check of the plan.
BloomFilterMatch(f, blk, plan) ==
    IF plan.bloom = "all" THEN matchBloomFilterAllTokens(blk, getTokens(f))
    ELSE IF plan.bloom = "any" THEN matchBloomFilterAnyTokenSet(blk, getTokenSets(f))
    ELSE TRUE

\* What the per-type matcher has read of the block once its pre-check is done.
ColumnReads(f, blk, plan) ==
    IF BloomFilterRead(f, blk, plan) THEN {"constValue", "columnHeader", "bloomFilter"}
    ELSE {"constValue", "columnHeader"}

VisitOutcome(visited, seen, bm) ==
    Outcome(visited.bm, visited.fatal, IF bm = {} THEN seen ELSE seen \cup {"values"}, "visit")

\* The per-type matcher carrying out its plan.
applyPlan(f, blk, bm, plan) ==
    IF plan.act = "panic" THEN Outcome(bm, TRUE, {"constValue", "columnHeader"}, "unknownType")
    ELSE IF plan.act = "reset" THEN Outcome({}, FALSE, {"constValue", "columnHeader"}, "typeReset")
    ELSE IF plan.act = "keep" THEN Outcome(bm, FALSE, {"constValue", "columnHeader"}, "typeKeep")
    ELSE IF ~BloomFilterMatch(f, blk, plan)
        THEN Outcome({}, FALSE, ColumnReads(f, blk, plan), "bloomReset")
    ELSE VisitOutcome(visitValues(f, blk, plan, bm), ColumnReads(f, blk, plan), bm)

\* The part of apply that follows a non-nil column header.
applyColumn(f, blk, bm) == applyPlan(f, blk, bm, ColumnPlan(f, blk.ch))

\* A variant of the range filters without the bounds check.
InvertedBoundsUnchecked(f) == FALSE

\* The bounds check that opens the apply of the four range filters.
InvertedBounds(f) ==
    CASE f.kind \in {"ipv4_range", "len_range", "range"} -> f.n1 > f.n2
      [] f.kind = "string_range" -> StrLess(f.s2, f.s1)
      [] OTHER -> FALSE

\* A variant of the fast path that only asks whether the literal is empty.
MissingColumnKeepsLiteralOnly(f) == f.s1 = <<>>

\* The fast path of each apply for a field without a column: TRUE when the
\* bitmap is left alone.
MissingColumnKeeps(f) ==
    CASE f.kind = "exact" -> f.s1 = <<>>
      [] f.kind = "in" -> \E i \in 1..Len(f.vals) : f.vals[i] = <<>>
      [] f.kind = "string_range" -> matchStringRange(<<>>, f.s1, f.s2)
      [] f.kind = "len_range" -> matchLenRange(<<>>, f.n1, f.n2)
      [] f.kind = "regexp" -> MatchString(f.s1, <<>>)
      [] f.kind = "phrase" -> Len(f.s1) = 0
      [] f.kind = "any_case_phrase" -> Len(ToLower(f.s1)) = 0
      [] OTHER -> FALSE

\* A variant of the missing-column fast path that never clears the bitmap.
applyMissingColumnKeepsAll(f, bm) == Outcome(bm, FALSE, {"constValue", "columnHeader"}, "missing")

\* The branch of apply for ch == nil.
applyMissingColumn(f, bm) ==
    Outcome(IF MissingColumnKeeps(f) THEN bm ELSE {}, FALSE,
            {"constValue", "columnHeader"}, "missing")

\* A variant of the constant-column branch that goes on to the column header.
applyConstColumnFallsThrough(f, v, bm) ==
    Outcome(IF matchValue(f, v) THEN bm ELSE {}, FALSE, {"constValue", "columnHeader"}, "const")

\* The branch of apply for a non-empty constant column value v.
applyConstColumn(f, v, bm) ==
    Outcome(IF matchValue(f, v) THEN bm ELSE {}, FALSE, {"constValue"}, "const")

\* streamFilter.apply
applyStream(f, blk, bm) ==
    IF f.s1 = <<>> THEN Outcome(bm, FALSE, {}, "streamEmpty")
    ELSE IF \E i \in 1..Len(f.vals) : f.vals[i] = blk.streamID
        THEN Outcome(bm, FALSE, {"streamID"}, "streamKeep")
    ELSE Outcome({}, FALSE, {"streamID"}, "streamReset")

\* filter.apply(bs, bm) of every variant.
apply(f, blk, bm) ==
    IF f.kind = "stream" THEN applyStream(f, blk, bm)
    ELSE IF (f.kind = "in" /\ Len(f.vals) = 0) \/ InvertedBounds(f)
        THEN Outcome({}, FALSE, {}, "earlyReset")
    ELSE IF blk.constValue # <<>> THEN applyConstColumn(f, blk.constValue, bm)
    ELSE IF ~blk.hasHeader THEN applyMissingColumn(f, bm)
    ELSE applyColumn(f, blk, bm)

(***************************************************************************)
(* Scenario: filters applied one after another to the bitmap of a block    *)
(***************************************************************************)
\* The number of rows of a block.
MaxRows == 2

Filter(kind, s1, s2, vals, n1, n2) ==
    [kind |-> kind, s1 |-> s1, s2 |-> s2, vals |-> vals, n1 |-> n1, n2 |-> n2]

\* "1970-01-01T00:00:01.000Z"
StrTimestamp == TimestampISO8601String(1000)

\* "1.2.3.4"
StrIPv4 == <<49, 46, 50, 46, 51, 46, 52>>

\* "other"
StrOther == <<111, 116, 104, 101, 114>>

\* "" and "a", "A", "b", "other", "a b", "A B", "1", "12", "1.5"
StrA == <<97>>

StrUpperA == <<65>>

StrB == <<98>>

StrAB == <<97, 32, 98>>

StrUpperAB == <<65, 32, 66>>

Str1 == <<49>>

Str12 == <<49, 50>>

Str1Dot5 == <<49, 46, 53>>

\* "2", "3", "02", "256"
Str2 == <<50>>

Str3 == <<51>>

Str02 == <<48, 50>>

Str256 == <<50, 53, 54>>

\* "12.0"
Str12Dot0 == <<49, 50, 46, 48>>

\* "x y z": a literal of three tokens
StrXYZ == <<120, 32, 121, 32, 122>>

\* The filters of the queries: every variant, with literals that reach each
\* branch of its apply over the blocks below.
Filters ==
    {Filter("stream", <<>>, <<>>, <<>>, 0, 0),
     Filter("stream", StrA, <<>>, <<<<1>>>>, 0, 0),
     Filter("stream", StrA, <<>>, <<<<2>>>>, 0, 0)}
    \cup {Filter("exact", l, <<>>, <<>>, 0, 0) : l \in {<<>>, StrA, StrOther, Str12, Str1Dot5, Str12Dot0, StrIPv4, StrTimestamp}}
    \cup {Filter("in", <<>>, <<>>, v, 0, 0) :
            v \in { <<>>, <<<<>>>>, <<StrA, Str12>>, <<Str1Dot5, StrIPv4>>,
                    <<Str1, Str2, Str3>>, <<Str02>>, <<Str256, StrA>>, <<StrXYZ, StrA>> }}
    \cup {Filter("ipv4_range", <<>>, <<>>, <<>>, r[1], r[2]) :
            r \in {<<16909056, 16909060>>, <<16909060, 16909056>>}}
    \cup {Filter("string_range", r[1], r[2], <<>>, 0, 0) : r \in { <<StrA, StrB>>, <<Str1, <<50>>>>, <<StrB, StrA>> }}
    \cup {Filter("len_range", <<>>, <<>>, <<>>, r[1], r[2]) : r \in {<<0, 1>>, <<1, 24>>, <<2, 1>>}}
    \cup {Filter("range", <<>>, <<>>, <<>>, r[1], r[2]) : r \in {<<10, 120>>, <<-10, 5>>, <<20, 10>>}}
    \cup {Filter("regexp", l, <<>>, <<>>, 0, 0) : l \in {<<>>, StrA, Str1}}
    \cup {Filter("prefix", l, <<>>, <<>>, 0, 0) : l \in {<<>>, StrA, Str1}}
    \cup {Filter("any_case_prefix", l, <<>>, <<>>, 0, 0) : l \in {StrUpperA, Str1}}
    \cup {Filter("phrase", l, <<>>, <<>>, 0, 0) : l \in {<<>>, StrB, Str12, Str1Dot5}}
    \cup {Filter("any_case_phrase", l, <<>>, <<>>, 0, 0) : l \in {<<>>, StrUpperA, StrUpperAB}}

\* The stored values of a column: the values of list, repeated over the rows.
RowValues(list) == [i \in 1..MaxRows |-> list[((i - 1) % Len(list)) + 1]]

\* The bloom filter the writer builds for a column from the tokens of the
\* texts of its values.
ColumnBloomFilter(texts) == mustInitTokens(NewBloomFilter, tokenizeStrings(<<>>, texts))

Block(constValue, hasHeader, valueType, minValue, maxValue, dict, values, bloom) ==
    [constValue |-> constValue, hasHeader |-> hasHeader,
     ch |-> [valueType |-> valueType, minValue |-> minValue, maxValue |-> maxValue, dict |-> dict],
     values |-> values, bf |-> bloom, streamID |-> <<1>>]

\* A column of type t holding the numbers of list, with its bloom filter.
NumericBlock(t, list) ==
    Block(<<>>, TRUE, t,
          CHOOSE n \in {list[i] : i \in 1..Len(list)} : \A i \in 1..Len(list) : n <= list[i],
          CHOOSE n \in {list[i] : i \in 1..Len(list)} : \A i \in 1..Len(list) : n >= list[i],
          <<>>,
          RowValues([i \in 1..Len(list) |-> MarshalValue(t, list[i])]),
          ColumnBloomFilter(RowValues([i \in 1..Len(list) |-> ValueString(t, MarshalValue(t, list[i]))])))

Blocks ==
    \* constant columns "a", "v" and "12", and a field without a column
    {Block(c, FALSE, "none", 0, 0, <<>>, RowValues(<<<<>>>>), NewBloomFilter) :
        c \in {StrA, <<118>>, Str12, <<>>}}
    \* string columns, with a bloom filter and without one
    \cup {Block(<<>>, TRUE, "string", 0, 0, <<>>, RowValues(l), ColumnBloomFilter(RowValues(l))) :
            l \in { <<StrA, StrAB>>, <<<<>>, Str12>>, <<StrUpperA, Str1Dot5>> }}
    \cup {Block(<<>>, TRUE, "string", 0, 0, <<>>, RowValues(<<StrA, StrAB>>), NewBloomFilter)}
    \* dict columns over "a", "12": well-formed, and with a two-byte value
    \cup {Block(<<>>, TRUE, "dict", 0, 0, <<StrA, Str12>>, RowValues(l), NewBloomFilter) :
            l \in { <<<<0>>, <<1>>>>, <<<<0>>, <<0, 1>>>> }}
    \* numeric columns
    \cup {NumericBlock("uint8", <<1, 12>>), NumericBlock("uint8", <<2, 7>>),
          NumericBlock("uint16", <<12, 300>>),
          NumericBlock("uint32", <<12, 70000>>),
          NumericBlock("uint64", <<1, 12>>), NumericBlock("float64", <<15, 120>>),
          NumericBlock("ipv4", <<16909060, 16909061>>),
          NumericBlock("timestamp", <<1000, 1500>>)}
    \* a uint8 column without a bloom filter, one with a two-byte value, an unknown type
    \cup {Block(<<>>, TRUE, "uint8", 1, 12, <<>>, RowValues(<<<<1>>, <<12>>>>), NewBloomFilter),
          Block(<<>>, TRUE, "uint8", 1, 12, <<>>, RowValues(<<<<12>>, <<1, 0>>>>), NewBloomFilter),
          Block(<<>>, TRUE, "unknown", 0, 0, <<>>, RowValues(<<StrA>>), NewBloomFilter)}

InitApply ==
    /\ IdlePool
    /\ IdleBloom
    /\ IdleMatch
    /\ IdleOnce
    /\ IdleRange
    /\ IdleStream
    /\ block \in Blocks
    /\ bitmap \in SUBSET (0..(MaxRows - 1))
    /\ bitmapInit = bitmap
    /\ bitmapBefore = bitmap
    /\ filter = Filter("none", <<>>, <<>>, <<>>, 0, 0)
    /\ readSet = {}
    /\ branch = "none"
    /\ panicked = FALSE

\* One filter of the query is applied to the block and its bitmap.
Apply ==
    /\ ~panicked
    /\ \E f \in Filters :
          \E out \in {apply(f, block, bitmap)} :
              /\ filter' = f
              /\ bitmapBefore' = bitmap
              /\ bitmap' = out.bm
              /\ readSet' = out.reads
              /\ branch' = out.path
              /\ panicked' = out.fatal
    /\ UNCHANGED <<block, bitmapInit>>
    /\ UNCHANGED nonApplyVars

NextApply ==
    \/ Apply

SpecApply == InitApply /\ [][NextApply]_vars

(***************************************************************************)
(* Claims about apply (checked under SpecApply)                            *)
(***************************************************************************)
\* C2: apply is monotone on the bitmap.  For every filter variant, every
\* block and every input bitmap, each bit that was clear before the call is
\* clear after it; and after any sequence of apply calls on the same bitmap
\* the set bits are a subset of the bits the sequence started with.
C2_ApplyMonotone ==
    /\ bitmap \subseteq bitmapBefore
    /\ bitmapBefore \subseteq bitmapInit

\* A visit of the rows that cleared one bit and kept another.
C2_Witness ==
    /\ branch = "visit"
    /\ bitmap # {}
    /\ bitmap # bitmapBefore

\* Two filters in a row, each of which cleared bits.
C2_WitnessSequence ==
    /\ bitmapInit # bitmapBefore
    /\ bitmapBefore # bitmap

\* A stream filter that cleared a bitmap with set bits.
C2_WitnessStream ==
    /\ filter.kind = "stream"
    /\ bitmapBefore # {}
    /\ bitmap = {}

\* Hash lists to probe a bloom filter with: the hashes of some token lists,
\* and hashes that come from no token.
ProbeHashes ==
    {appendTokensHashes(<<>>, t) : t \in {<<>>, <<StrA>>, <<StrOther>>, <<StrA, Str12>>}}
    \cup {<<[i \in 1..8 |-> 0]>>, <<[i \in 1..8 |-> 255], [i \in 1..8 |-> 1]>>}

\* C5: a bloom filter with an empty bit array answers containsAll(hashes) =
\* TRUE for every hash list, so the token pre-check of a filter
\* (matchBloomFilterAllTokens) against such a bloom filter never clears the
\* bitmap.
C5_EmptyBloomFilter ==
    Bits(block.bf) = <<>> =>
        /\ \A hashes \in ProbeHashes : containsAll(block.bf, hashes)
        /\ branch # "bloomReset"

\* A filter with tokens consulted the empty bloom filter of a column, went on
\* to the rows and kept one of them.
C5_Witness ==
    /\ Bits(block.bf) = <<>>
    /\ "bloomFilter" \in readSet
    /\ branch = "visit"
    /\ bitmap # {}

\* The same, for a filter whose tokens no row holds: the rows, not the bloom
\* filter, cleared the bitmap.
C5_WitnessNoRow ==
    /\ Bits(block.bf) = <<>>
    /\ "bloomFilter" \in readSet
    /\ branch = "visit"
    /\ bitmapBefore # {}
    /\ bitmap = {}

\* The last apply was a non-stream filter on a column with the constant value.
OnConstColumn ==
    /\ branch # "none"
    /\ filter.kind # "stream"
    /\ block.constValue # <<>>

\* C9: the constant-column fast path.  For every variant other than stream,
\* on a column with a non-empty constant value v, apply leaves the bitmap
\* unchanged when the primitive matcher of the variant accepts v and clears
\* the whole bitmap when it rejects v, and reads neither the column header nor
\* the bloom filter nor a row value; exact("other") on constant "v" clears
\* every bit.
C9_ConstColumn ==
    OnConstColumn =>
        /\ bitmap = IF matchValue(filter, block.constValue) THEN bitmapBefore ELSE {}
        /\ readSet \cap {"columnHeader", "bloomFilter", "values"} = {}
        /\ (filter.kind = "exact" /\ filter.s1 = StrOther /\ block.constValue = <<118>>)
              => bitmap = {}

\* A filter that accepts the constant and left set bits alone.
C9_Witness ==
    /\ OnConstColumn
    /\ matchValue(filter, block.constValue)
    /\ bitmap = bitmapBefore
    /\ bitmap # {}

\* exact("other") on the constant "v" cleared a bitmap with set bits.
C9_WitnessExample ==
    /\ OnConstColumn
    /\ filter.kind = "exact"
    /\ filter.s1 = StrOther
    /\ block.constValue = <<118>>
    /\ bitmapBefore # {}
    /\ bitmap = {}

\* The last apply was an exact, in, phrase or any-case phrase filter on a
\* field that has neither a constant value nor a column.
OnMissingColumn ==
    /\ branch # "none"
    /\ filter.kind \in {"exact", "in", "phrase", "any_case_phrase"}
    /\ block.constValue = <<>>
    /\ ~block.hasHeader

\* The literal of the filter is the empty string (for in: one of its literals is).
HasEmptyLiteral ==
    IF filter.kind = "in" THEN \E i \in 1..Len(filter.vals) : filter.vals[i] = <<>>
    ELSE filter.s1 = <<>>

\* C10: the missing column.  On a field without constant value and without
\* column header, exact, in, phrase and any-case phrase leave the bitmap
\* unchanged only if the literal is the empty string (for in: the empty string
\* is among the literals) and otherwise clear the whole bitmap.
C10_MissingColumn ==
    OnMissingColumn => bitmap = IF HasEmptyLiteral THEN bitmapBefore ELSE {}

\* exact("") on the absent field kept every set row.
C10_Witness ==
    /\ OnMissingColumn
    /\ filter.kind = "exact"
    /\ filter.s1 = <<>>
    /\ bitmap = bitmapBefore
    /\ bitmap # {}

\* A phrase filter with a non-empty phrase cleared the set rows of the absent field.
C10_WitnessCleared ==
    /\ OnMissingColumn
    /\ filter.kind \in {"phrase", "any_case_phrase"}
    /\ filter.s1 # <<>>
    /\ bitmapBefore # {}
    /\ bitmap = {}

\* The last apply was an in-filter with literals that reached the column of
\* type t.
InOnColumn(t) ==
    /\ branch # "none"
    /\ filter.kind = "in"
    /\ Len(filter.vals) > 0
    /\ block.constValue = <<>>
    /\ block.hasHeader
    /\ block.ch.valueType = t

\* The bytes of the literals of the filter that parse as an unsigned integer
\* below 256.
Uint8Literals ==
    {<<tryParseUint64(filter.vals[j]).n>> :
        j \in {k \in 1..Len(filter.vals) :
                  tryParseUint64(filter.vals[k]).ok /\ tryParseUint64(filter.vals[k]).n < 256}}

\* C11: the in-filter on a uint8 column.  After apply a set row stays set
\* exactly when its stored byte is the number of some literal that parses as
\* an unsigned integer below 256; literals that do not parse or are 256 or
\* more match no row; with the literals "1", "2", "3" the rows holding byte 2
\* stay set and the rows outside {1, 2, 3} are cleared.
C11_InUint8 ==
    InOnColumn("uint8") =>
        bitmap = {i \in bitmapBefore : block.values[i + 1] \in Uint8Literals}

\* The column types whose values are compared in their stored form.
BinaryTypes == UintTypes \cup {"float64", "ipv4", "timestamp"}

\* The phrase filter hands its phrase to match<Type>ByExactValue: always on the
\* unsigned types, for a number with an inner dot on float64, for a complete
\* address or timestamp on ipv4 and timestamp.
PhraseIsExact(t, lit) ==
    CASE t \in UintTypes -> TRUE
      [] t = "float64" -> IndexOfDot(lit) > 0 /\ IndexOfDot(lit) < Len(lit) - 1
      [] OTHER -> tryParse(t, lit).ok

\* The last apply was an exact filter, or a phrase filter on the exact path, on
\* a column of a binary-comparable type.
OnBinaryExact ==
    /\ branch # "none"
    /\ block.constValue = <<>>
    /\ block.hasHeader
    /\ block.ch.valueType \in BinaryTypes
    /\ \/ filter.kind = "exact"
       \/ filter.kind = "phrase" /\ PhraseIsExact(block.ch.valueType, filter.s1)

\* The literal of the filter does not parse as the type of the column, or
\* parses to a number outside the minValue..maxValue of the column header.
LiteralOutside ==
    \/ ~tryParse(block.ch.valueType, filter.s1).ok
    \/ tryParse(block.ch.valueType, filter.s1).n < block.ch.minValue
    \/ tryParse(block.ch.valueType, filter.s1).n > block.ch.maxValue

\* C12: the exact match on binary-comparable columns.  For the exact filter
\* (and the phrase filter on the exact path) on a uint8, uint16, uint32,
\* uint64, float64, ipv4 or timestamp column: a literal that does not parse as
\* the column type, or parses below minValue or above maxValue, makes apply
\* clear the whole bitmap without consulting the bloom filter and without
\* reading a row value; otherwise a set row stays set exactly when its stored
\* bytes are the native encoding of the parsed literal.
C12_BinaryExact ==
    OnBinaryExact =>
        IF LiteralOutside
        THEN bitmap = {} /\ readSet \cap {"bloomFilter", "values"} = {}
        ELSE bitmap = {i \in bitmapBefore :
                          block.values[i + 1] =
                              MarshalValue(block.ch.valueType,
                                           tryParse(block.ch.valueType, filter.s1).n)}

\* The nine value types of a column header.
KnownTypes == {"string", "dict"} \cup BinaryTypes

\* The last apply was a filter that dispatches on the column type (every
\* variant but stream), on a block whose column header carries an unknown tag.
OnUnknownType ==
    /\ branch # "none"
    /\ filter.kind # "stream"
    /\ block.constValue = <<>>
    /\ block.hasHeader
    /\ block.ch.valueType \notin KnownTypes

\* The filter returns before it looks at the column: an in-filter without
\* values, a range filter whose lower bound exceeds its upper bound.
ReturnsEarly ==
    \/ filter.kind = "in" /\ Len(filter.vals) = 0
    \/ InvertedBounds(filter)

\* C13 as stated: the unknown value-type tag is fatal.  For every variant that
\* dispatches on the column type, apply on a block whose column header carries
\* a tag that is none of the nine known ones ends in the fatal abort and never
\* returns a bitmap, whatever the literal parameters of the filter are.
C13_UnknownTypeAlwaysFatal ==
    OnUnknownType => panicked

\* C13, amended: on such a block apply ends in the fatal abort, leaving the
\* bitmap as it was, unless the filter is an in-filter without values or a
\* range filter with inverted bounds; those clear the bitmap and return
\* without reading the column header.
C13_UnknownTypeFatal ==
    OnUnknownType =>
        IF ReturnsEarly
        THEN ~panicked /\ bitmap = {} /\ "columnHeader" \notin readSet
        ELSE panicked /\ branch = "unknownType" /\ bitmap = bitmapBefore

\* A filter with set rows to look at met the unknown tag and aborted.
C13_Witness ==
    /\ OnUnknownType
    /\ ~ReturnsEarly
    /\ bitmapBefore # {}
    /\ panicked

\* A range filter with inverted bounds returned from the same block.
C13_WitnessEarly ==
    /\ OnUnknownType
    /\ InvertedBounds(filter)
    /\ bitmapBefore # {}
    /\ ~panicked

\* The last apply was a filter of a dispatching variant on a fixed-width column
\* (dict, uint8, uint16, uint32, uint64, float64, ipv4, timestamp) holding a
\* row value whose length is not the width of the type.
OnWrongWidth ==
    /\ branch # "none"
    /\ filter.kind # "stream"
    /\ block.constValue = <<>>
    /\ block.hasHeader
    /\ block.ch.valueType \in BinaryTypes \cup {"dict"}
    /\ \E i \in 1..MaxRows : Len(block.values[i]) # ValueWidth(block.ch.valueType)

\* C14: the wrong-width binary value is fatal.  For every variant applied to
\* a fixed-width column, if the block holds a row value whose byte length
\* differs from the declared width, apply ends in the fatal abort instead of
\* returning a bitmap; this includes the exact and in filters and the rows
\* whose bit is already clear.
C14_WrongWidthFatal ==
    OnWrongWidth => panicked

\* What the code does instead: apply aborts exactly when a matcher that
\* decodes the stored value (every test but the byte comparison of the exact
\* path and the set lookup of the in-filter) visits the rows and one of the
\* set rows holds a value of the wrong width.
C14_FatalOnDecodedSetRow ==
    OnWrongWidth =>
        (panicked <=>
            /\ branch = "visit"
            /\ ColumnPlan(filter, block.ch).test \in {"dict", "text", "number"}
            /\ \E i \in bitmapBefore :
                  Len(block.values[i + 1]) # ValueWidth(block.ch.valueType))

\* The last apply was a numeric range filter on an ipv4 or timestamp column,
\* or an IPv4 range filter on a uint8, uint16, uint32, uint64, float64 or
\* timestamp column.
OnIncompatibleRange ==
    /\ branch # "none"
    /\ block.constValue = <<>>
    /\ block.hasHeader
    /\ \/ filter.kind = "range" /\ block.ch.valueType \in {"ipv4", "timestamp"}
       \/ filter.kind = "ipv4_range"
            /\ block.ch.valueType \in UintTypes \cup {"float64", "timestamp"}

\* C15: a range predicate on an incompatible column type yields no match and
\* no error: the numeric range on an ipv4 or timestamp column and the IPv4
\* range on a uint8, uint16, uint32, uint64, float64 or timestamp column clear
\* the whole bitmap and return normally without reading a row value.
C15_IncompatibleRange ==
    OnIncompatibleRange =>
        /\ bitmap = {}
        /\ ~panicked
        /\ "values" \notin readSet

\* A numeric range with proper bounds cleared the set rows of an ipv4 or
\* timestamp column in the switch on the column type.
C15_Witness ==
    /\ OnIncompatibleRange
    /\ filter.kind = "range"
    /\ branch = "typeReset"
    /\ bitmapBefore # {}
    /\ bitmap = {}

\* An IPv4 range with proper bounds did the same on a column holding a value
\* of the wrong width.
C15_WitnessIPv4Range ==
    /\ OnIncompatibleRange
    /\ OnWrongWidth
    /\ filter.kind = "ipv4_range"
    /\ branch = "typeReset"
    /\ bitmapBefore # {}
    /\ bitmap = {}

\* The last apply was an IPv4, numeric or length range filter with
\* minValue > maxValue, or a string range filter whose minValue is greater
\* than its maxValue in byte order.
OnInvertedRange ==
    /\ branch # "none"
    /\ \/ filter.kind \in {"ipv4_range", "range", "len_range"} /\ filter.n1 > filter.n2
       \/ filter.kind = "string_range" /\ StrLess(filter.s2, filter.s1)

\* C16: inverted bounds clear everything.  An IPv4 range filter with
\* minValue > maxValue clears the entire bitmap for every block, whatever its
\* constant value, the presence of the column or the column type; the same
\* holds for the numeric, string and length range filters.
C16_InvertedBounds ==
    OnInvertedRange =>
        /\ bitmap = {}
        /\ ~panicked
        /\ readSet = {}

\* An inverted IPv4 range cleared the set rows of a constant column.
C16_Witness ==
    /\ OnInvertedRange
    /\ filter.kind = "ipv4_range"
    /\ block.constValue # <<>>
    /\ bitmapBefore # {}
    /\ bitmap = {}

\* Inverted numeric, string and length ranges cleared the set rows of a
\* column with an unknown type tag.
C16_WitnessUnknownType ==
    /\ OnInvertedRange
    /\ filter.kind \in {"range", "string_range", "len_range"}
    /\ OnUnknownType
    /\ bitmapBefore # {}
    /\ bitmap = {}

\* The bloom filter of the column is the one the writer builds from the
\* tokens of all its row values.
BloomFilterOfAllRows == block.bf = ColumnBloomFilter(block.values)

\* The value of row i is one of the literals of the in-filter.
RowEqualsLiteral(i) == \E j \in 1..Len(filter.vals) : filter.vals[j] = block.values[i + 1]

\* C20: the in-filter has no false negatives from its bloom pre-check.  For
\* every non-empty literal list (also one in which a literal has more than
\* maxTokenSetsToInit tokens and other literals follow it) and every string
\* column whose bloom filter was built from the tokens of all its row values,
\* apply never clears a set row whose value equals one of the literals.
C20_InNoFalseNegatives ==
    (InOnColumn("string") /\ BloomFilterOfAllRows) =>
        \A i \in bitmapBefore : RowEqualsLiteral(i) => i \in bitmap

(***************************************************************************)
(* Scenario: the string range and the length range on one value            *)
(***************************************************************************)
\* The longest value and bound of a string range.
MaxBoundLen == 2

\* The most code points of a value of a length range.
MaxRunes == 3

\* The largest minLen and maxLen of a length range.
MaxLen == 6

\* 'a', 'b', 'c'
RangeBytes == {97, 98, 99}

RangeStrings == SeqsUpTo(RangeBytes, MaxBoundLen)

\* The encodings of U+0061 (one byte), U+00E9 (two bytes), U+20AC (three bytes).
RangeRunes == { <<97>>, <<195, 169>>, <<226, 130, 172>> }

\* The well-formed strings of up to MaxRunes of these code points.
RuneStrings == {ConcatAll(r) : r \in SeqsUpTo(RangeRunes, MaxRunes)}

StringRangeArgs ==
    [kind : {"string_range"}, s : RangeStrings, minValue : RangeStrings, maxValue : RangeStrings]

LenRangeArgs ==
    [kind : {"len_range"}, s : RuneStrings, minLen : 0..MaxLen, maxLen : 0..MaxLen]

\* A string column without bloom filter holding the values of list.
StringColumn(list) == Block(<<>>, TRUE, "string", 0, 0, <<>>, RowValues(list), NewBloomFilter)

\* The bitmap with the bit of every row set.
AllRows == 0..(MaxRows - 1)

\* Numbers up to 2^65 at their full width: <<a, t>> stands for
\* a * 2^63 + t / 10 with t a small count of tenths, so that <<1, 0>> is
\* 2^63, <<2, -10>> is math.MaxUint64 and <<2, 0>> is 2^64.
Wide(a, t) == <<a, t>>

WideLess(x, y) == x[1] < y[1] \/ (x[1] = y[1] /\ x[2] < y[2])

WideLeq(x, y) == x = y \/ WideLess(x, y)

\* math.MaxUint64, and float64(math.MaxUint64): the constant is rounded to
\* the nearest float64, which is 2^64.
MaxUint64 == Wide(2, -10)

MaxUint64AsFloat64 == Wide(2, 0)

\* math.Ceil and math.Floor: floats of 2^63 and more are whole numbers.
Ceil(f) == IF f[1] > 0 THEN f ELSE Wide(0, 0 - (((0 - f[2]) \div 10) * 10))

Floor(f) == IF f[1] > 0 THEN f ELSE Wide(0, (f[2] \div 10) * 10)

\* What uint64(f) gives for f = 2^64, which uint64 cannot represent: the
\* result depends on the implementation (2^63 where the conversion goes
\* through the signed one, math.MaxUint64 where it saturates).
Uint64OfTwoTo64 == {Wide(1, 0), MaxUint64}

\* toUint64Clamp on a whole float; conv is what uint64(2^64) gives.
toUint64Clamp(f, conv) ==
    IF WideLess(f, Wide(0, 0)) THEN Wide(0, 0)
    ELSE IF WideLess(MaxUint64AsFloat64, f) THEN MaxUint64
    ELSE IF f = MaxUint64AsFloat64 THEN conv
    ELSE f

toUint64Range(minValue, maxValue, conv) ==
    <<toUint64Clamp(Ceil(minValue), conv), toUint64Clamp(Floor(maxValue), conv)>>

\* matchUint64ByRange on a column whose rows hold the numbers of values and
\* whose header holds their bounds: the bitmap it leaves of bm.
matchUint64ByRange(ch, values, bm, minValue, maxValue, conv) ==
    LET r == toUint64Range(minValue, maxValue, conv)
    IN  IF \/ WideLess(maxValue, Wide(0, 0))
           \/ WideLess(ch.maxValue, r[1])
           \/ WideLess(r[2], ch.minValue)
        THEN {}
        ELSE {i \in bm : WideLeq(r[1], values[i + 1]) /\ WideLeq(values[i + 1], r[2])}

\* The float64 bounds of the range filters: -1, 0, 0.5, 1.1, 1.9, 12, 2^63,
\* 2^64 and 2^65.
RangeFloats ==
    {Wide(0, -10), Wide(0, 0), Wide(0, 5), Wide(0, 11), Wide(0, 19), Wide(0, 120),
     Wide(1, 0), Wide(2, 0), Wide(4, 0)}

\* The numbers of the uint64 columns: 0, 1, 12, 2^63 + 1 and math.MaxUint64.
Uint64Columns ==
    { <<Wide(0, 0), Wide(0, 10)>>, <<Wide(0, 10), Wide(0, 120)>>,
      <<Wide(0, 120), Wide(1, 10)>>, <<Wide(1, 10), MaxUint64>> }

Uint64RangeArgs ==
    [kind : {"uint64_range"}, minValue : RangeFloats, maxValue : RangeFloats,
     column : Uint64Columns, bm : SUBSET AllRows, conv : Uint64OfTwoTo64]

\* The header of a uint64 column holding the numbers of list (in ascending order).
Uint64Header(list) == [minValue |-> list[1], maxValue |-> list[Len(list)]]

InitRange ==
    /\ IdlePool
    /\ IdleBloom
    /\ IdleMatch
    /\ IdleOnce
    /\ IdleApply
    /\ IdleStream
    /\ rangeArgs \in StringRangeArgs \cup LenRangeArgs \cup Uint64RangeArgs
    /\ rangeOp = "none"
    /\ rangeMatch = FALSE
    /\ rangeBitmap = {}

\* matchStringRange on the value, and the string range filter on a column
\* holding the value and the upper bound.
MatchStringRange ==
    /\ rangeOp = "none"
    /\ rangeArgs.kind = "string_range"
    /\ rangeOp' = "string_range"
    /\ rangeMatch' = matchStringRange(rangeArgs.s, rangeArgs.minValue, rangeArgs.maxValue)
    /\ rangeBitmap' =
          apply(Filter("string_range", rangeArgs.minValue, rangeArgs.maxValue, <<>>, 0, 0),
                StringColumn(<<rangeArgs.s, rangeArgs.maxValue>>), AllRows).bm
    /\ UNCHANGED rangeArgs
    /\ UNCHANGED nonRangeVars

\* matchLenRange on the value, and the length range filter on a column
\* holding the value and "a".
MatchLenRange ==
    /\ rangeOp = "none"
    /\ rangeArgs.kind = "len_range"
    /\ rangeOp' = "len_range"
    /\ rangeMatch' = matchLenRange(rangeArgs.s, rangeArgs.minLen, rangeArgs.maxLen)
    /\ rangeBitmap' =
          apply(Filter("len_range", <<>>, <<>>, <<>>, rangeArgs.minLen, rangeArgs.maxLen),
                StringColumn(<<rangeArgs.s, StrA>>), AllRows).bm
    /\ UNCHANGED rangeArgs
    /\ UNCHANGED nonRangeVars

\* rangeFilter.apply on a uint64 column: the check of the bounds, then
\* matchUint64ByRange.
MatchUint64ByRange ==
    /\ rangeOp = "none"
    /\ rangeArgs.kind = "uint64_range"
    /\ rangeOp' = "uint64_range"
    /\ rangeMatch' = ~WideLess(rangeArgs.maxValue, rangeArgs.minValue)
    /\ rangeBitmap' =
          IF WideLess(rangeArgs.maxValue, rangeArgs.minValue) THEN {}
          ELSE matchUint64ByRange(Uint64Header(rangeArgs.column), RowValues(rangeArgs.column),
                                  rangeArgs.bm, rangeArgs.minValue, rangeArgs.maxValue,
                                  rangeArgs.conv)
    /\ UNCHANGED rangeArgs
    /\ UNCHANGED nonRangeVars

NextRange ==
    \/ MatchStringRange
    \/ MatchLenRange
    \/ MatchUint64ByRange

SpecRange == InitRange /\ [][NextRange]_vars

(***************************************************************************)
(* Claims about the range matchers (checked under SpecRange)               *)
(***************************************************************************)
\* a < b in the byte-wise lexicographic order: b continues past a common
\* prefix with nothing left of a or with a greater byte.
LexLess(a, b) ==
    \E k \in 1..Len(b) :
        /\ \A j \in 1..(k - 1) : j <= Len(a) /\ a[j] = b[j]
        /\ k > Len(a) \/ a[k] < b[k]

\* minValue <= v < maxValue in that order.
InHalfOpenRange(v, minValue, maxValue) ==
    /\ minValue = v \/ LexLess(minValue, v)
    /\ LexLess(v, maxValue)

\* The rows of the column of a string range whose value lies in the range.
RowsInHalfOpenRange ==
    {i \in AllRows :
        InHalfOpenRange(RowValues(<<rangeArgs.s, rangeArgs.maxValue>>)[i + 1],
                        rangeArgs.minValue, rangeArgs.maxValue)}

\* C17: the string range is half-open.  matchStringRange(s, minValue,
\* maxValue) is true exactly when minValue <= s < maxValue in the byte-wise
\* lexicographic order: "b" is in the range ("a", "c") and "c" is not; and a
\* string range filter on a string column keeps a set row exactly when its
\* value satisfies this.
C17_StringRangeHalfOpen ==
    rangeOp = "string_range" =>
        /\ rangeMatch = InHalfOpenRange(rangeArgs.s, rangeArgs.minValue, rangeArgs.maxValue)
        /\ rangeBitmap = RowsInHalfOpenRange
        /\ (rangeArgs.minValue = StrA /\ rangeArgs.maxValue = <<99>>) =>
              /\ rangeArgs.s = StrB => rangeMatch
              /\ rangeArgs.s = <<99>> => ~rangeMatch

\* "b" was found in the range ("a", "c"); of the column holding "b" and "c"
\* the filter kept the row of "b" and cleared the row of "c".
C17_Witness ==
    /\ rangeOp = "string_range"
    /\ rangeArgs.s = StrB
    /\ rangeArgs.minValue = StrA
    /\ rangeArgs.maxValue = <<99>>
    /\ rangeMatch
    /\ 0 \in rangeBitmap
    /\ 1 \notin rangeBitmap

\* The value equal to the upper bound "c" was rejected.
C17_WitnessUpperBound ==
    /\ rangeOp = "string_range"
    /\ rangeArgs.s = <<99>>
    /\ rangeArgs.minValue = StrA
    /\ rangeArgs.maxValue = <<99>>
    /\ ~rangeMatch
    /\ rangeBitmap = {}

\* The number of code points of a well-formed string: its bytes that are not
\* continuation bytes.
CodePoints(s) == Cardinality({i \in 1..Len(s) : s[i] \notin 128..191})

\* minLen <= code points of v <= maxLen.
InLenRange(v, minLen, maxLen) == minLen <= CodePoints(v) /\ CodePoints(v) <= maxLen

\* The rows of the column of a length range whose value lies in the range.
RowsInLenRange ==
    {i \in AllRows :
        InLenRange(RowValues(<<rangeArgs.s, StrA>>)[i + 1], rangeArgs.minLen, rangeArgs.maxLen)}

\* C18: the length range is closed and counts Unicode code points, not
\* bytes.  matchLenRange(s, minLen, maxLen) is true exactly when
\* minLen <= (number of code points of s) <= maxLen; a string of three
\* multi-byte code points matches len_range(3, 3) and does not match a range
\* that holds only its byte length.
C18_LenRangeCodePoints ==
    rangeOp = "len_range" =>
        /\ rangeMatch = InLenRange(rangeArgs.s, rangeArgs.minLen, rangeArgs.maxLen)
        /\ rangeBitmap = RowsInLenRange
        /\ (CodePoints(rangeArgs.s) = 3 /\ Len(rangeArgs.s) = 6) =>
              /\ (rangeArgs.minLen = 3 /\ rangeArgs.maxLen = 3) => rangeMatch
              /\ (rangeArgs.minLen = 6 /\ rangeArgs.maxLen = 6) => ~rangeMatch

\* The six bytes of three two-byte code points matched len_range(3, 3), and
\* the filter kept their row and cleared the row of "a".
C18_Witness ==
    /\ rangeOp = "len_range"
    /\ rangeArgs.s = <<195, 169, 195, 169, 195, 169>>
    /\ rangeArgs.minLen = 3
    /\ rangeArgs.maxLen = 3
    /\ rangeMatch
    /\ 0 \in rangeBitmap
    /\ 1 \notin rangeBitmap

\* The same six bytes did not match len_range(6, 6).
C18_WitnessByteLength ==
    /\ rangeOp = "len_range"
    /\ rangeArgs.s = <<195, 169, 195, 169, 195, 169>>
    /\ rangeArgs.minLen = 6
    /\ rangeArgs.maxLen = 6
    /\ ~rangeMatch
    /\ rangeBitmap = {}

(***************************************************************************)
(* Scenario: one stream filter applied to the blocks of concurrent searches *)
(***************************************************************************)
\* The stream ids of the blocks and of the index.
StreamIDs == { <<1>>, <<2>> }

\* The sub-queries: the empty one and a non-empty one.
StreamQueries == { <<>>, StrA }

\* What idb.searchStreamIDs returns for the sub-query: a list of stream ids.
StreamIndexes == SeqsUpTo(StreamIDs, 2)

\* The bitmaps handed to apply.
StreamBitmaps == { AllRows, {0} }

\* A goroutine that has not applied the filter yet.
NoRun == [applied |-> FALSE, streamID |-> <<>>, before |-> {}, after |-> {}]

\* The rest of streamFilter.apply once the stream ids are known: the lookup
\* of the block's stream id.
StreamLookup(ids, run) ==
    [applied |-> TRUE, streamID |-> run.streamID, before |-> run.before,
     after |-> applyStream(Filter("stream", fsF, <<>>, ids, 0, 0),
                           [streamID |-> run.streamID], run.before).bm]

\* A variant of sync.Once that runs the function whenever the mutex is free.
OnceMustRunAlways(done, mutex) == mutex = 0

\* sync.Once.Do runs the function: the done flag is not set and the mutex is
\* free to take.
OnceMustRun(done, mutex) == ~done /\ mutex = 0

InitStream ==
    /\ IdlePool
    /\ IdleBloom
    /\ IdleMatch
    /\ IdleOnce
    /\ IdleApply
    /\ IdleRange
    /\ fsF \in StreamQueries
    /\ fsIdb \in StreamIndexes
    /\ fsOnceDone = FALSE
    /\ fsOnceMutex = 0
    /\ fsStreamIDs = <<>>
    /\ searchCalls = 0
    /\ fsPc = [g \in Goroutines |-> "idle"]
    /\ fsRun = [g \in Goroutines |-> NoRun]

\* A goroutine calls apply for a block: with an empty sub-query apply returns
\* at once, otherwise it goes on to getStreamIDs.
StreamApplyCall ==
    /\ \E g \in Goroutines, id \in StreamIDs, bm \in StreamBitmaps :
          /\ fsPc[g] = "idle"
          /\ IF fsF = <<>>
             THEN /\ fsRun' = [fsRun EXCEPT ![g] =
                                  StreamLookup(fsStreamIDs, [streamID |-> id, before |-> bm])]
                  /\ fsPc' = fsPc
             ELSE /\ fsRun' = [fsRun EXCEPT ![g] =
                                  [applied |-> FALSE, streamID |-> id, before |-> bm, after |-> bm]]
                  /\ fsPc' = [fsPc EXCEPT ![g] = "once"]
    /\ UNCHANGED <<fsF, fsIdb, fsOnceDone, fsOnceMutex, fsStreamIDs, searchCalls>>
    /\ UNCHANGED nonStreamVars

\* streamIDsOnce.Do finds the done flag set; apply looks the stream id up.
StreamOnceDone ==
    /\ \E g \in Goroutines :
          /\ fsPc[g] = "once"
          /\ fsOnceDone
          /\ fsRun' = [fsRun EXCEPT ![g] = StreamLookup(fsStreamIDs, fsRun[g])]
          /\ fsPc' = [fsPc EXCEPT ![g] = "idle"]
    /\ UNCHANGED <<fsF, fsIdb, fsOnceDone, fsOnceMutex, fsStreamIDs, searchCalls>>
    /\ UNCHANGED nonStreamVars

\* streamIDsOnce.Do takes the mutex and starts initStreamIDs, which calls
\* idb.searchStreamIDs.
StreamInitBegin ==
    /\ \E g \in Goroutines :
          /\ fsPc[g] = "once"
          /\ OnceMustRun(fsOnceDone, fsOnceMutex)
          /\ fsOnceMutex' = g
          /\ fsPc' = [fsPc EXCEPT ![g] = "init"]
    /\ searchCalls' = searchCalls + 1
    /\ UNCHANGED <<fsF, fsIdb, fsOnceDone, fsStreamIDs, fsRun>>
    /\ UNCHANGED nonStreamVars

\* initStreamIDs stores the stream ids found, Do sets the done flag and
\* releases the mutex; apply looks the stream id up.
StreamInitEnd ==
    /\ \E g \in Goroutines :
          /\ fsPc[g] = "init"
          /\ fsRun' = [fsRun EXCEPT ![g] = StreamLookup(fsIdb, fsRun[g])]
          /\ fsPc' = [fsPc EXCEPT ![g] = "idle"]
    /\ fsStreamIDs' = fsIdb
    /\ fsOnceDone' = TRUE
    /\ fsOnceMutex' = 0
    /\ UNCHANGED <<fsF, fsIdb, searchCalls>>
    /\ UNCHANGED nonStreamVars

NextStream ==
    \/ StreamApplyCall
    \/ StreamOnceDone
    \/ StreamInitBegin
    \/ StreamInitEnd

SpecStream == InitStream /\ [][NextStream]_vars

(***************************************************************************)
(* Claims about the stream filter (checked under SpecStream)               *)
(***************************************************************************)
\* The stream ids the index holds for the sub-query.
Resolved == {fsIdb[i] : i \in 1..Len(fsIdb)}

\* C19: the stream filter.  apply leaves the bitmap unchanged when the stream
\* sub-query is empty or the stream id of the block is in the resolved set,
\* and clears it otherwise; the lookup in the external index
\* (searchStreamIDs) is made at most once per filter instance over any number
\* of blocks, and never for an empty sub-query.
C19_StreamFilter ==
    /\ searchCalls <= 1
    /\ fsF = <<>> => searchCalls = 0
    /\ \A g \in Goroutines :
          fsRun[g].applied =>
              fsRun[g].after =
                  IF fsF = <<>> \/ fsRun[g].streamID \in Resolved
                  THEN fsRun[g].before ELSE {}

\* After one lookup in the index two goroutines have applied the filter to
\* blocks of different streams: one bitmap was kept, the other cleared.
C19_Witness ==
    /\ searchCalls = 1
    /\ fsRun[1].applied
    /\ fsRun[2].applied
    /\ fsRun[1].streamID # fsRun[2].streamID
    /\ fsRun[1].after = fsRun[1].before
    /\ fsRun[2].after = {}

\* Two goroutines have applied a filter with an empty sub-query, and the
\* index was never asked.
C19_WitnessEmpty ==
    /\ fsF = <<>>
    /\ fsIdb # <<>>
    /\ fsRun[1].applied
    /\ fsRun[2].applied
    /\ fsRun[1].after = fsRun[1].before
    /\ searchCalls = 0


(***************************************************************************)
(* Scenario: one filter variant at a time applied to the columns of a      *)
(* block (string, dict, uint8..uint64, float64, ipv4, timestamp, missing)  *)
(***************************************************************************)
\* "90", "95", "!", "#", "-", "0"
Str90 == <<57, 48>>

Str95 == <<57, 53>>

StrBang == <<33>>

StrHash == <<35>>

StrMinus == <<45>>

Str0 == <<48>>

\* The bounds of the string range filters of the queries.
StringRanges ==
    { <<Str1, Str2>>, <<Str90, Str95>>, <<StrA, StrB>>, <<StrBang, StrHash>>,
      <<StrMinus, Str0>>, <<Str95, Str90>>, <<<<>>, StrA>> }

\* "a\xc3" (an 'a' and the first byte of a two-byte rune), "\xa9a " (a
\* continuation byte, an 'a' and a space), and the values "aé", "éa b"
StrATrunc == <<97, 195>>

StrContA == <<169, 97, 32>>

StrAE == <<97, 195, 169>>

StrEAB == <<195, 169, 97, 32, 98>>

\* The literals of the exact, prefix and phrase filters of the queries.
ExactLiterals == {<<>>, StrA, StrAB, Str12, Str1Dot5}

PrefixLiterals == {<<>>, StrA, StrAB, Str1, StrContA}

PhraseLiterals == {<<>>, StrA, StrB, StrAB, Str1, Str12, Str1Dot5, StrATrunc}

\* "01t00", "01T00", "01t00:", "01T00:": parts of a timestamp around its 'T'
StrLowerT == <<48, 49, 116, 48, 48>>

StrUpperT == <<48, 49, 84, 48, 48>>

StrLowerTColon == StrLowerT \o <<58>>

StrUpperTColon == StrUpperT \o <<58>>

\* The literals of the case-insensitive filters of the queries.
AnyCasePrefixLiterals == {<<>>, StrA, StrUpperA, Str1, StrLowerTColon, StrUpperTColon}

AnyCasePhraseLiterals == {<<>>, StrA, StrUpperA, StrAB, StrUpperAB, Str12, StrLowerT, StrUpperT}

\* The literal lists of the in-filters, the patterns of the regexp filters
\* and the bounds of the range filters (numeric bounds in tenths).
InLists == { <<>>, <<<<>>>>, <<StrA, Str12>>, <<StrIPv4, StrB>> }

RegexpPatterns == {<<>>, StrA, Str1}

IPv4Ranges == { <<16909056, 16909060>>, <<16909061, 16909070>>, <<16909060, 16909056>> }

LenRanges == { <<0, 1>>, <<1, 24>>, <<3, 7>>, <<2, 1>> }

NumericRanges ==
    { <<10, 120>>, <<-10, 5>>, <<11, 19>>, <<85, 95>>, <<905, 915>>, <<-20, -10>>, <<20, 10>> }

\* A string column holding the values of list, with its bloom filter.
StringBlock(list) ==
    Block(<<>>, TRUE, "string", 0, 0, <<>>, RowValues(list), ColumnBloomFilter(RowValues(list)))

\* The filters of the queries, by variant.
StringRangeFilters == {Filter("string_range", r[1], r[2], <<>>, 0, 0) : r \in StringRanges}

ExactFilters == {Filter("exact", l, <<>>, <<>>, 0, 0) : l \in ExactLiterals}

PrefixFilters == {Filter("prefix", l, <<>>, <<>>, 0, 0) : l \in PrefixLiterals}

PhraseFilters == {Filter("phrase", l, <<>>, <<>>, 0, 0) : l \in PhraseLiterals}

InFilters == {Filter("in", <<>>, <<>>, v, 0, 0) : v \in InLists}

IPv4RangeFilters == {Filter("ipv4_range", <<>>, <<>>, <<>>, r[1], r[2]) : r \in IPv4Ranges}

LenRangeFilters == {Filter("len_range", <<>>, <<>>, <<>>, r[1], r[2]) : r \in LenRanges}

RangeFilters == {Filter("range", <<>>, <<>>, <<>>, r[1], r[2]) : r \in NumericRanges}

RegexpFilters == {Filter("regexp", l, <<>>, <<>>, 0, 0) : l \in RegexpPatterns}

AnyCasePrefixFilters == {Filter("any_case_prefix", l, <<>>, <<>>, 0, 0) : l \in AnyCasePrefixLiterals}

AnyCasePhraseFilters == {Filter("any_case_phrase", l, <<>>, <<>>, 0, 0) : l \in AnyCasePhraseLiterals}

\* No filter has run yet.
NoFilter == Filter("none", <<>>, <<>>, <<>>, 0, 0)

\* The dictionary of the dict columns.
ColumnDict == <<StrA, Str12, StrIPv4, StrUpperAB>>

\* The columns of the blocks.
ColumnBlocks ==
    {StringBlock(<<StrA, StrAB>>), StringBlock(<<StrAE, StrEAB>>),
     StringBlock(<<StrUpperAB, <<>>>>),
     \* a field without a column, and dict columns over "a", "12", "1.2.3.4", "A B"
     Block(<<>>, FALSE, "none", 0, 0, <<>>, RowValues(<<<<>>>>), NewBloomFilter),
     Block(<<>>, TRUE, "dict", 0, 0, ColumnDict, RowValues(<<<<0>>, <<1>>>>), NewBloomFilter),
     Block(<<>>, TRUE, "dict", 0, 0, ColumnDict, RowValues(<<<<2>>, <<3>>>>), NewBloomFilter),
     NumericBlock("uint8", <<9, 91>>), NumericBlock("uint16", <<12, 300>>),
     NumericBlock("uint32", <<91, 70000>>), NumericBlock("uint64", <<1, 12>>),
     NumericBlock("float64", <<95, -10>>), NumericBlock("float64", <<15, -15>>),
     NumericBlock("ipv4", <<16909060, 16909061>>),
     NumericBlock("timestamp", <<1000, 1500>>)}

InitColumn ==
    /\ IdlePool
    /\ IdleBloom
    /\ IdleMatch
    /\ IdleOnce
    /\ IdleRange
    /\ IdleStream
    /\ block \in ColumnBlocks
    /\ bitmap \in SUBSET AllRows
    /\ bitmapInit = bitmap
    /\ bitmapBefore = bitmap
    /\ filter = NoFilter
    /\ readSet = {}
    /\ branch = "none"
    /\ panicked = FALSE

\* f.apply(bs, bm) on the block and its bitmap, as the first filter of the
\* query (every bitmap a query can hand over is an initial one).
ApplyFilter(f) ==
    /\ filter.kind = "none"
    /\ ~panicked
    /\ \E out \in {apply(f, block, bitmap)} :
          /\ filter' = f
          /\ bitmapBefore' = bitmap
          /\ bitmap' = out.bm
          /\ readSet' = out.reads
          /\ branch' = out.path
          /\ panicked' = out.fatal
    /\ UNCHANGED <<block, bitmapInit>>
    /\ UNCHANGED nonApplyVars

\* stringRangeFilter.apply
ApplyStringRange ==
    \E f \in StringRangeFilters : ApplyFilter(f)

\* exactFilter.apply
ApplyExact ==
    \E f \in ExactFilters : ApplyFilter(f)

\* prefixFilter.apply
ApplyPrefix ==
    \E f \in PrefixFilters : ApplyFilter(f)

\* phraseFilter.apply
ApplyPhrase ==
    \E f \in PhraseFilters : ApplyFilter(f)

\* inFilter.apply
ApplyIn ==
    \E f \in InFilters : ApplyFilter(f)

\* ipv4RangeFilter.apply
ApplyIPv4Range ==
    \E f \in IPv4RangeFilters : ApplyFilter(f)

\* lenRangeFilter.apply
ApplyLenRange ==
    \E f \in LenRangeFilters : ApplyFilter(f)

\* rangeFilter.apply
ApplyRange ==
    \E f \in RangeFilters : ApplyFilter(f)

\* regexpFilter.apply
ApplyRegexp ==
    \E f \in RegexpFilters : ApplyFilter(f)

\* anyCasePrefixFilter.apply
ApplyAnyCasePrefix ==
    \E f \in AnyCasePrefixFilters : ApplyFilter(f)

\* anyCasePhraseFilter.apply
ApplyAnyCasePhrase ==
    \E f \in AnyCasePhraseFilters : ApplyFilter(f)

NextColumn ==
    \/ ApplyStringRange
    \/ ApplyExact
    \/ ApplyPrefix
    \/ ApplyPhrase
    \/ ApplyIn
    \/ ApplyIPv4Range
    \/ ApplyLenRange
    \/ ApplyRange
    \/ ApplyRegexp
    \/ ApplyAnyCasePrefix
    \/ ApplyAnyCasePhrase

SpecColumn == InitColumn /\ [][NextColumn]_vars

(***************************************************************************)
(* Claims about the filter variants (checked under SpecColumn)             *)
(***************************************************************************)
\* The filter just applied is of the given kind and reached a column of one
\* of the given types.
OnColumn(kind, types) ==
    /\ filter.kind = kind
    /\ block.constValue = <<>>
    /\ block.hasHeader
    /\ block.ch.valueType \in types
    /\ ~panicked

\* The canonical string rendering of the value of row i.
Rendering(i) == ValueString(block.ch.valueType, block.values[i + 1])

\* C21: string range on binary-encoded columns equals lexicographic
\* comparison of the canonical rendering.  For a string range filter with
\* min <= max applied to a uint8/uint16/uint32/uint64/float64/ipv4/timestamp
\* column, a set row stays set iff its rendering s satisfies min <= s < max;
\* so the guard on the bounds clears the bitmap only when no rendering of a
\* set row lies in [min, max).
C21_StringRangeOnBinary ==
    (OnColumn("string_range", BinaryTypes) /\ ~InvertedBounds(filter))
        => bitmap = {i \in bitmapBefore : InHalfOpenRange(Rendering(i), filter.s1, filter.s2)}

\* The tokens of string s, as a set.
TokensOf(s) == {tokenizeStrings(<<>>, <<s>>)[k] : k \in 1..Len(tokenizeStrings(<<>>, <<s>>))}

\* The tokens the filter hands to the bloom pre-check, as a set.
RequiredTokens(f) == {getTokens(f)[k] : k \in 1..Len(getTokens(f))}

\* C22: the bloom pre-check is sound for the token-decomposable predicates.
\* For every value v and literal L, if matchPhrase(v, L) holds (or v == L for
\* exact) every token of L is a token of v, and if matchPrefix(v, L) holds
\* every token of getTokensSkipLast(L) is a token of v; hence, with a bloom
\* filter built from the tokens of all row values, the exact, phrase and
\* prefix filters on a string column never clear a set row that the per-row
\* matcher accepts.
C22_BloomPreCheckSound ==
    (/\ filter.kind \in {"exact", "phrase", "prefix"}
     /\ OnColumn(filter.kind, {"string"})
     /\ BloomFilterOfAllRows)
        => \A i \in AllRows :
              matchValue(filter, block.values[i + 1]) =>
                  /\ RequiredTokens(filter) \subseteq TokensOf(block.values[i + 1])
                  /\ i \in bitmapBefore => i \in bitmap

\* C23: the phrase filter on a float64 column agrees with textual phrase
\* matching.  For every phrase and every float64 column a set row stays set
\* iff matchPhrase(rendering of the row's value, phrase) holds; the
\* exact-value fast path taken for a phrase with a '.' strictly inside it
\* gives the rows textual matching gives (phrase "1.5" against the stored
\* values 1.5 and -1.5).
C23_Float64Phrase ==
    OnColumn("phrase", {"float64"})
        => bitmap = {i \in bitmapBefore : matchPhrase(Rendering(i), filter.s1)}

\* The dictionary entry the index byte of row i names.
DictValue(i) == block.ch.dict[block.values[i + 1][1] + 1]

\* The dictionary entries the primitive matcher of the filter accepts.
AcceptedEntries == {k \in 1..Len(block.ch.dict) : matchValue(filter, block.ch.dict[k])}

\* C24: dictionary columns give the same result as matching each row's
\* dictionary string directly.  For every filter variant with a dict path
\* (exact, in-set, prefix, any-case prefix, phrase, any-case phrase, regexp,
\* range, string range, length range, IPv4 range) a set row stays set iff the
\* variant's primitive matcher accepts dict[row's index byte]; when no
\* dictionary entry is accepted the whole bitmap is cleared without reading
\* any row.
C24_DictColumn ==
    (filter.kind # "none" /\ OnColumn(filter.kind, {"dict"})) =>
        /\ bitmap = {i \in bitmapBefore : matchValue(filter, DictValue(i))}
        /\ AcceptedEntries = {} => (bitmap = {} /\ "values" \notin readSet)

\* A filter visited the rows of a dict column, kept one and cleared another.
C24_Witness ==
    /\ OnColumn(filter.kind, {"dict"})
    /\ branch = "visit"
    /\ bitmap # {}
    /\ bitmap # bitmapBefore

\* A filter that accepts no dictionary entry cleared a non-empty bitmap.
C24_WitnessNoEntry ==
    /\ OnColumn(filter.kind, {"dict"})
    /\ branch = "typeReset"
    /\ AcceptedEntries = {}
    /\ bitmapBefore # {}
    /\ bitmap = {}

(***************************************************************************)
(* Claims about the numeric range on uint64 columns (checked under         *)
(* SpecRange)                                                              *)
(***************************************************************************)
\* The number held by row i of the column of the range filter.
Uint64Row(i) == RowValues(rangeArgs.column)[i + 1]

\* C25: the numeric range on unsigned-integer columns is the closed
\* real-number range.  For a range filter [minValue, maxValue] with
\* minValue <= maxValue a set row holding integer n stays set iff
\* minValue <= n <= maxValue as real numbers; the ceil/floor/clamp conversion
\* (toUint64Range) and the header pre-check never keep a row outside the
\* range nor clear a row inside it.
C25_UintRangeClosed ==
    (rangeOp = "uint64_range" /\ WideLeq(rangeArgs.minValue, rangeArgs.maxValue)) =>
        rangeBitmap = {i \in rangeArgs.bm :
                          /\ WideLeq(rangeArgs.minValue, Uint64Row(i))
                          /\ WideLeq(Uint64Row(i), rangeArgs.maxValue)}


(***************************************************************************)
(* Scenario: goroutines that call the helpers working on pooled scratch    *)
(* objects, one statement at a time                                        *)
(***************************************************************************)
\* poolCall[g] = <<op, arg, held, gets, puts, out, misuse>>: the function that
\* runs and its argument, the object id bf or bb points to (0 for none), how
\* often the call took an object from a pool and gave one back, the value it
\* returns, and whether it touched an object that lay in the pool.
NoCall == <<"none", <<>>, 0, 0, 0, <<>>, FALSE>>

CallOp(g) == poolCall[g][1]

CallArg(g) == poolCall[g][2]

Held(g) == poolCall[g][3]

Gets(g) == poolCall[g][4]

Puts(g) == poolCall[g][5]

Out(g) == poolCall[g][6]

Misuse(g) == poolCall[g][7]

\* The hashes of the tokens, as the index build computes them.
BaseHashes(tokens) == [n \in 1..Len(tokens) |-> Sum64(tokens[n])]

\* Token lists for bloomFilterMarshalTokens: 5 tokens need two words.
PoolTokenLists == {<<StrA>>, <<StrA, <<97, 98>>, StrA, <<97, 98>>, StrA>>}

\* Hash lists for bloomFilterMarshalHashes: the hashes of the token lists, and
\* a seed whose chain wraps around 2^64.
PoolHashLists ==
    {BaseHashes(T) : T \in PoolTokenLists}
        \cup {<<[k \in 1..8 |-> IF k = 1 THEN 254 ELSE 255]>>}

\* <<ch, minLen, maxLen>> for matchMinMaxValueLen.
PoolLenArgs ==
    {<<[minValue |-> 5, maxValue |-> 12345], 2, 3>>,
     <<[minValue |-> 123, maxValue |-> 12345], 1, 2>>}

PoolCalls ==
    ({"bloomFilterMarshalTokens"} \X PoolTokenLists)
        \cup ({"bloomFilterMarshalHashes"} \X PoolHashLists)
        \cup ({"matchMinMaxValueLen"} \X PoolLenArgs)

\* Two goroutines: the smallest number that can share a pool.
PoolGoroutines == {1, 2}

InitPool ==
    /\ IdleBloom
    /\ IdleMatch
    /\ IdleOnce
    /\ IdleApply
    /\ IdleRange
    /\ IdleStream
    /\ bloomFilterPool = {}
    /\ bbPool = {}
    /\ bfHeap = <<>>
    /\ bbHeap = <<>>
    /\ poolPc = [g \in PoolGoroutines |-> "idle"]
    /\ poolCall = [g \in PoolGoroutines |-> NoCall]

\* A goroutine enters one of the helpers.
PoolCallBegin(g) ==
    /\ poolPc[g] = "idle"
    /\ \E c \in PoolCalls :
          /\ poolCall' = [poolCall EXCEPT ![g] = <<c[1], c[2], 0, 0, 0, <<>>, FALSE>>]
          /\ poolPc' = [poolPc EXCEPT ![g] =
                IF c[1] = "matchMinMaxValueLen" THEN "bbPool.Get" ELSE "getBloomFilter"]
    /\ UNCHANGED <<bloomFilterPool, bbPool, bfHeap, bbHeap>>
    /\ UNCHANGED nonPoolVars

\* bf := getBloomFilter(): an object of the pool, or a new one when Get gives nil
\* (sync.Pool may do so at any time; at most one object per goroutine is allocated).
GetBloomFilter(g) ==
    /\ poolPc[g] = "getBloomFilter"
    /\ \/ \E id \in bloomFilterPool :
             /\ bloomFilterPool' = bloomFilterPool \ {id}
             /\ bfHeap' = bfHeap
             /\ poolCall' = [poolCall EXCEPT ![g][3] = id, ![g][4] = @ + 1]
       \/ /\ Len(bfHeap) < Cardinality(PoolGoroutines)
          /\ bloomFilterPool' = bloomFilterPool
          /\ bfHeap' = Append(bfHeap, NewBloomFilter)
          /\ poolCall' = [poolCall EXCEPT ![g][3] = Len(bfHeap) + 1, ![g][4] = @ + 1]
    /\ poolPc' = [poolPc EXCEPT ![g] = "mustInit"]
    /\ UNCHANGED <<bbPool, bbHeap>>
    /\ UNCHANGED nonPoolVars

\* bf.mustInitTokens(tokens) / bf.mustInitHashes(hashes)
PoolMustInit(g) ==
    /\ poolPc[g] = "mustInit"
    /\ bfHeap' = [bfHeap EXCEPT ![Held(g)] =
                     IF CallOp(g) = "bloomFilterMarshalTokens"
                        THEN mustInitTokens(@, CallArg(g))
                        ELSE mustInitHashes(@, CallArg(g))]
    /\ poolCall' = [poolCall EXCEPT ![g][7] = @ \/ Held(g) \in bloomFilterPool]
    /\ poolPc' = [poolPc EXCEPT ![g] = "marshal"]
    /\ UNCHANGED <<bloomFilterPool, bbPool, bbHeap>>
    /\ UNCHANGED nonPoolVars

\* dst = bf.marshal(dst), with the caller's dst empty
PoolMarshal(g) ==
    /\ poolPc[g] = "marshal"
    /\ poolCall' = [poolCall EXCEPT ![g][6] = marshal(<<>>, bfHeap[Held(g)]),
                                   ![g][7] = @ \/ Held(g) \in bloomFilterPool]
    /\ poolPc' = [poolPc EXCEPT ![g] = "putBloomFilter"]
    /\ UNCHANGED <<bloomFilterPool, bbPool, bfHeap, bbHeap>>
    /\ UNCHANGED nonPoolVars

\* putBloomFilter(bf): bf.reset(); bloomFilterPool.Put(bf)
PutBloomFilter(g) ==
    /\ poolPc[g] = "putBloomFilter"
    /\ bfHeap' = [bfHeap EXCEPT ![Held(g)] = reset(@)]
    /\ bloomFilterPool' = bloomFilterPool \cup {Held(g)}
    /\ poolCall' = [poolCall EXCEPT ![g][5] = @ + 1]
    /\ poolPc' = [poolPc EXCEPT ![g] = "return"]
    /\ UNCHANGED <<bbPool, bbHeap>>
    /\ UNCHANGED nonPoolVars

\* bb := bbPool.Get()
BbPoolGet(g) ==
    /\ poolPc[g] = "bbPool.Get"
    /\ \/ \E id \in bbPool :
             /\ bbPool' = bbPool \ {id}
             /\ bbHeap' = bbHeap
             /\ poolCall' = [poolCall EXCEPT ![g][3] = id, ![g][4] = @ + 1]
       \/ /\ Len(bbHeap) < Cardinality(PoolGoroutines)
          /\ bbPool' = bbPool
          /\ bbHeap' = Append(bbHeap, <<>>)
          /\ poolCall' = [poolCall EXCEPT ![g][3] = Len(bbHeap) + 1, ![g][4] = @ + 1]
    /\ poolPc' = [poolPc EXCEPT ![g] = "appendMin"]
    /\ UNCHANGED <<bloomFilterPool, bfHeap>>
    /\ UNCHANGED nonPoolVars

\* bb.B = strconv.AppendUint(bb.B[:0], ch.minValue, 10);
\* if maxLen < uint64(len(s)) { return false }
AppendMinValue(g) ==
    /\ poolPc[g] = "appendMin"
    /\ \E s \in {AppendUint(CallArg(g)[1].minValue)} :
          /\ bbHeap' = [bbHeap EXCEPT ![Held(g)] = s]
          /\ IF CallArg(g)[3] < Len(s)
                THEN /\ poolCall' = [poolCall EXCEPT ![g][6] = FALSE,
                                                    ![g][7] = @ \/ Held(g) \in bbPool]
                     /\ poolPc' = [poolPc EXCEPT ![g] = "bbPool.Put"]
                ELSE /\ poolCall' = [poolCall EXCEPT ![g][7] = @ \/ Held(g) \in bbPool]
                     /\ poolPc' = [poolPc EXCEPT ![g] = "appendMax"]
    /\ UNCHANGED <<bloomFilterPool, bbPool, bfHeap>>
    /\ UNCHANGED nonPoolVars

\* bb.B = strconv.AppendUint(bb.B[:0], ch.maxValue, 10);
\* return minLen <= uint64(len(s))
AppendMaxValue(g) ==
    /\ poolPc[g] = "appendMax"
    /\ \E s \in {AppendUint(CallArg(g)[1].maxValue)} :
          /\ bbHeap' = [bbHeap EXCEPT ![Held(g)] = s]
          /\ poolCall' = [poolCall EXCEPT ![g][6] = CallArg(g)[2] <= Len(s),
                                         ![g][7] = @ \/ Held(g) \in bbPool]
    /\ poolPc' = [poolPc EXCEPT ![g] = "bbPool.Put"]
    /\ UNCHANGED <<bloomFilterPool, bbPool, bfHeap>>
    /\ UNCHANGED nonPoolVars

\* The deferred bbPool.Put(bb), which empties bb.B before the buffer goes back.
BbPoolPut(g) ==
    /\ poolPc[g] = "bbPool.Put"
    /\ bbHeap' = [bbHeap EXCEPT ![Held(g)] = <<>>]
    /\ bbPool' = bbPool \cup {Held(g)}
    /\ poolCall' = [poolCall EXCEPT ![g][5] = @ + 1]
    /\ poolPc' = [poolPc EXCEPT ![g] = "return"]
    /\ UNCHANGED <<bloomFilterPool, bfHeap>>
    /\ UNCHANGED nonPoolVars

\* The function returns; its locals are gone.
PoolReturn(g) ==
    /\ poolPc[g] = "return"
    /\ poolCall' = [poolCall EXCEPT ![g] = NoCall]
    /\ poolPc' = [poolPc EXCEPT ![g] = "idle"]
    /\ UNCHANGED <<bloomFilterPool, bbPool, bfHeap, bbHeap>>
    /\ UNCHANGED nonPoolVars

NextPool ==
    \/ \E g \in PoolGoroutines : PoolCallBegin(g)
    \/ \E g \in PoolGoroutines : GetBloomFilter(g)
    \/ \E g \in PoolGoroutines : PoolMustInit(g)
    \/ \E g \in PoolGoroutines : PoolMarshal(g)
    \/ \E g \in PoolGoroutines : PutBloomFilter(g)
    \/ \E g \in PoolGoroutines : BbPoolGet(g)
    \/ \E g \in PoolGoroutines : AppendMinValue(g)
    \/ \E g \in PoolGoroutines : AppendMaxValue(g)
    \/ \E g \in PoolGoroutines : BbPoolPut(g)
    \/ \E g \in PoolGoroutines : PoolReturn(g)

SpecPool == InitPool /\ [][NextPool]_vars


(***************************************************************************)
(* Claims about the hash chains and the pooled objects (checked under      *)
(* SpecPool)                                                               *)
(***************************************************************************)
\* (x + i) mod 2^64 on the 8-byte form, for i < 256: byte k takes a carry iff
\* the lowest byte overflows and every byte between is 255.
U64Add(x, i) ==
    [k \in 1..8 |->
        IF k = 1 THEN (x[1] + i) % 256
        ELSE IF x[1] + i >= 256 /\ (\A j \in 2..(k - 1) : x[j] = 255)
                THEN (x[k] + 1) % 256
                ELSE x[k]]

\* probes is prefix followed by 6 probes per seed, in the order of the seeds,
\* the i-th probe of a seed being the hash of seed + i.
IsProbesOf(probes, prefix, seeds) ==
    /\ Len(probes) = Len(prefix) + bloomFilterHashesCount * Len(seeds)
    /\ SubSeq(probes, 1, Len(prefix)) = prefix
    /\ \A n \in 1..Len(seeds) : \A i \in 0..(bloomFilterHashesCount - 1) :
          probes[Len(prefix) + bloomFilterHashesCount * (n - 1) + i + 1]
              = Sum64(U64Add(seeds[n], i))

\* What dst may hold before the append.
ProbePrefixes == {<<>>, <<Sum64(<<>>)>>}

IsTokensCall(g) == CallOp(g) = "bloomFilterMarshalTokens"

IsHashesCall(g) == CallOp(g) = "bloomFilterMarshalHashes"

\* C26: the build-time and the query-time hash chains are identical.  For every
\* token t, appendTokensHashes([t]) equals appendHashesHashes([base hash of t]);
\* each emits exactly 6 probes per item in item order, the i-th probe being the
\* hash of the 8-byte form of (seed + i) mod 2^64 (looked at when mustInitTokens
\* or mustInitHashes has run them); and so bloomFilterMarshalTokens(T) and bloomFilterMarshalHashes(base hashes of T)
\* return the same bytes.
C26_HashChainsIdentical ==
    /\ \A g \in PoolGoroutines : (poolPc[g] = "marshal" /\ IsTokensCall(g)) =>
          /\ \A n \in 1..Len(CallArg(g)) :
                appendTokensHashes(<<>>, <<CallArg(g)[n]>>)
                    = appendHashesHashes(<<>>, <<Sum64(CallArg(g)[n])>>)
          /\ \A d \in ProbePrefixes :
                /\ appendTokensHashes(d, CallArg(g))
                      = appendHashesHashes(d, BaseHashes(CallArg(g)))
                /\ IsProbesOf(appendTokensHashes(d, CallArg(g)), d, BaseHashes(CallArg(g)))
    /\ \A g \in PoolGoroutines : (poolPc[g] = "marshal" /\ IsHashesCall(g)) =>
          \A d \in ProbePrefixes :
              IsProbesOf(appendHashesHashes(d, CallArg(g)), d, CallArg(g))
    /\ \A g, h \in PoolGoroutines :
          (/\ poolPc[g] = "return" /\ IsTokensCall(g)
           /\ poolPc[h] = "return" /\ IsHashesCall(h)
           /\ CallArg(h) = BaseHashes(CallArg(g))) => Out(g) = Out(h)

\* One goroutine marshalled five tokens and the other their base hashes, both
\* got the same two words with bits set.
C26_Witness ==
    \E g, h \in PoolGoroutines :
        /\ poolPc[g] = "return" /\ IsTokensCall(g)
        /\ poolPc[h] = "return" /\ IsHashesCall(h)
        /\ CallArg(h) = BaseHashes(CallArg(g))
        /\ Len(Out(g)) = 16
        /\ Out(g) = Out(h)
        /\ \E k \in 1..8 : Out(g)[k] # 0
        /\ \E k \in 9..16 : Out(g)[k] # 0

\* A chain that wraps around 2^64 was marshalled.
C26_WitnessWrap ==
    \E g \in PoolGoroutines :
        /\ poolPc[g] = "return" /\ IsHashesCall(g)
        /\ CallArg(g)[1] = [k \in 1..8 |-> IF k = 1 THEN 254 ELSE 255]
        /\ appendHashesHashes(<<>>, CallArg(g))[3] = Sum64([k \in 1..8 |-> 0])

\* The call of g holds an object it took and has not given back.
Holding(g) == Gets(g) > Puts(g)

IsBloomCall(g) == IsTokensCall(g) \/ IsHashesCall(g)

\* The bloom filter has no word in use and no set bit in its backing array.
IsClean(f) == f.len = 0 /\ \A i \in 1..Len(f.arr) : f.arr[i] = {}

\* C27: pooled scratch objects are strictly per call.  On every path through
\* matchMinMaxValueLen or a bloom marshal helper each pooled byte buffer or
\* bloom filter that is acquired is released exactly once before the function
\* returns and is not used after release (nor by another goroutine meanwhile);
\* putBloomFilter resets the filter first, so every bloom filter handed out by
\* getBloomFilter has an empty bit array with no stale set bits.
C27_PooledPerCall ==
    /\ \A g \in PoolGoroutines :
          /\ poolPc[g] = "return" => (Gets(g) = 1 /\ Puts(g) = 1)
          /\ Puts(g) <= Gets(g)
          /\ ~Misuse(g)
          /\ Holding(g) =>
                /\ Held(g) \notin (IF IsBloomCall(g) THEN bloomFilterPool ELSE bbPool)
                /\ \A h \in PoolGoroutines \ {g} :
                      (Holding(h) /\ IsBloomCall(h) = IsBloomCall(g)) => Held(h) # Held(g)
          /\ poolPc[g] = "mustInit" => IsClean(bfHeap[Held(g)])
    /\ \A id \in bloomFilterPool : IsClean(bfHeap[id])

\* A bloom filter that held two words in an earlier call was handed out again
\* and gave the one-word result of a single token, while the other goroutine
\* holds a byte buffer.
C27_Witness ==
    \E g, h \in PoolGoroutines :
        /\ poolPc[g] = "return"
        /\ IsTokensCall(g)
        /\ Len(bfHeap[Held(g)].arr) = 2
        /\ Len(Out(g)) = 8
        /\ Out(g) = marshal(<<>>, mustInitTokens(NewBloomFilter, CallArg(g)))
        /\ Held(g) \in bloomFilterPool
        /\ poolPc[h] = "appendMax"
        /\ Holding(h)


(***************************************************************************)
(* Claims about the missing column, the input bitmap and the case of the   *)
(* literal (checked under SpecColumn)                                      *)
(***************************************************************************)
\* A filter ran on a field without constant value and without column header.
OnAbsentField ==
    /\ filter.kind # "none"
    /\ block.constValue = <<>>
    /\ ~block.hasHeader

\* Whether the variant accepts the empty string, variant by variant.
EmptyStringAccepted ==
    CASE filter.kind = "exact" -> filter.s1 = <<>>
      [] filter.kind = "in" -> \E i \in 1..Len(filter.vals) : filter.vals[i] = <<>>
      [] filter.kind \in {"phrase", "any_case_phrase"} -> filter.s1 = <<>>
      [] filter.kind \in {"prefix", "any_case_prefix"} -> FALSE
      [] filter.kind = "string_range" -> filter.s1 = <<>> /\ filter.s2 # <<>>
      [] filter.kind = "len_range" -> filter.n1 = 0
      [] filter.kind = "regexp" -> MatchString(filter.s1, <<>>)
      [] filter.kind \in {"range", "ipv4_range"} -> FALSE

\* C28: a missing column behaves as a column of empty strings, for every filter
\* variant.  On a field without constant value and without column header apply
\* leaves the bitmap unchanged iff the variant's primitive matcher accepts the
\* empty string (exact: empty literal; in: "" among the literals; phrase and
\* any-case phrase: empty phrase; prefix and any-case prefix: never; string
\* range: min <= "" < max; length range: minLen = 0; regexp: the pattern
\* matches ""; numeric range and IPv4 range: never) and clears it otherwise.
C28_MissingColumnAsEmptyStrings ==
    OnAbsentField =>
        /\ EmptyStringAccepted = matchValue(filter, <<>>)
        /\ bitmap = IF EmptyStringAccepted THEN bitmapBefore ELSE {}

\* A string range from "" kept the set rows of the absent field.
C28_Witness ==
    /\ OnAbsentField
    /\ filter.kind = "string_range"
    /\ bitmap = bitmapBefore
    /\ bitmap # {}

\* The empty prefix cleared the set rows of the absent field.
C28_WitnessPrefix ==
    /\ OnAbsentField
    /\ filter.kind \in {"prefix", "any_case_prefix"}
    /\ filter.s1 = <<>>
    /\ bitmapBefore # {}
    /\ bitmap = {}

\* A length range from 0 kept the set rows of the absent field.
C28_WitnessLenRange ==
    /\ OnAbsentField
    /\ filter.kind = "len_range"
    /\ bitmap = bitmapBefore
    /\ bitmap # {}


\* The filters that are applied together with the filter of the scenario.
ColumnFilters ==
    ExactFilters \cup PrefixFilters \cup RangeFilters \cup AnyCasePhraseFilters

\* The rows of the block the filter accepts: what apply leaves of the all-ones
\* bitmap.
MatchSet(f) == apply(f, block, AllRows).bm

\* C29: apply is the intersection with a match set that the block determines.
\* For every filter, every block without corrupt values and every input bitmap
\* B, apply(block, B) = B \cap apply(block, all-ones); hence applying the same
\* filter twice equals applying it once, and applying two filters in either
\* order gives the same bitmap.
C29_ApplyIsIntersection ==
    (filter.kind # "none" /\ ~panicked) =>
        /\ ~apply(filter, block, AllRows).fatal
        /\ bitmap = bitmapBefore \cap MatchSet(filter)
        /\ apply(filter, block, bitmap).bm = bitmap
        /\ \A f2 \in ColumnFilters :
              apply(f2, block, bitmap).bm
                  = apply(filter, block, apply(f2, block, bitmapBefore).bm).bm

\* A visit of the rows with one bit set cleared it although the filter accepts
\* the other row, and a visit of both rows kept exactly that other row.
C29_Witness ==
    /\ branch = "visit"
    /\ bitmapBefore # {}
    /\ bitmapBefore # AllRows
    /\ bitmap = {}
    /\ MatchSet(filter) # {}
    /\ \A i \in MatchSet(filter) : i < Len(block.values)

\* Another filter narrows the result further, in either order.
C29_WitnessTwoFilters ==
    /\ branch = "visit"
    /\ bitmap # {}
    /\ \E f2 \in ColumnFilters :
          /\ apply(f2, block, bitmap).bm # bitmap
          /\ apply(f2, block, bitmapBefore).bm # {}
          /\ apply(f2, block, bitmapBefore).path = "visit"


\* The any-case filters of the same variant whose literal has the same
\* lowercase form as the literal of f.
SameLowercase(f) ==
    {f2 \in AnyCasePrefixFilters \cup AnyCasePhraseFilters :
        f2.kind = f.kind /\ ToLower(f2.s1) = ToLower(f.s1)}

\* C30: the case-insensitive filters do not depend on the case of their
\* literal.  For any two any-case prefix filters (or any two any-case phrase
\* filters) whose literals have the same lowercase form, apply produces the
\* same bitmap on every block and every column type, the bloom filter being
\* built from the tokens of the column's values.
C30_AnyCaseLiteral ==
    filter.kind \in {"any_case_prefix", "any_case_phrase"} =>
        \A f2 \in SameLowercase(filter) : apply(f2, block, bitmapBefore).bm = bitmap

=============================================================================
